---------------------------- MODULE Spec2Model ----------------------------
(***************************************************************************)
(* A model of the Supabase/Postgres MCP server: configuration loading      *)
(* (src/src/config/env.ts), the credential selector and the operation      *)
(* executors (src/src/services/supabase.ts) and the request handlers       *)
(* (src/src/services/mcp-handlers.ts).                                     *)
(*                                                                         *)
(* Text is modelled as a sequence of one-character strings, so that the    *)
(* string operations of the code (toUpperCase, toLowerCase, startsWith,    *)
(* includes, trim, split, replace) are computed, not assumed.              *)
(***************************************************************************)
EXTENDS Integers, Sequences, FiniteSets, TLC

VARIABLES envVars, env, supabaseClient, supabaseServiceClient, raised,
          request, response, calls, created, result, inflight, locals, logged

vars == <<envVars, env, supabaseClient, supabaseServiceClient, raised,
          request, response, calls, created, result, inflight, locals, logged>>

\* what only the specifications of the executors, of interleaved requests and
\* of the logger change
aside == <<result, inflight, locals, logged>>

---------------------------------------------------------------------------
(* Bounds of the model                                                     *)

\* longest table name, in characters, of a single-record tool call
MaxNameLen == 2
\* most words in the SQL text of a query or createTable call
MaxSqlWords == 3
\* most operations in one batchOperations call
MaxOps == 2

---------------------------------------------------------------------------
(* Text                                                                    *)

LowerChars == <<"a","b","c","d","e","f","g","h","i","j","k","l","m",
                "n","o","p","q","r","s","t","u","v","w","x","y","z">>
UpperChars == <<"A","B","C","D","E","F","G","H","I","J","K","L","M",
                "N","O","P","Q","R","S","T","U","V","W","X","Y","Z">>
DigitChars == <<"0","1","2","3","4","5","6","7","8","9">>

Range(f) == {f[i] : i \in DOMAIN f}

LowerSet == Range(LowerChars)
UpperSet == Range(UpperChars)

\* String.prototype.toUpperCase, one character
ToUpperChar(c) ==
  IF c \in LowerSet
  THEN UpperChars[CHOOSE i \in DOMAIN LowerChars : LowerChars[i] = c]
  ELSE c

\* String.prototype.toLowerCase, one character
ToLowerChar(c) ==
  IF c \in UpperSet
  THEN LowerChars[CHOOSE i \in DOMAIN UpperChars : UpperChars[i] = c]
  ELSE c

ToUpperCase(s) == [i \in 1..Len(s) |-> ToUpperChar(s[i])]
ToLowerCase(s) == [i \in 1..Len(s) |-> ToLowerChar(s[i])]

\* String.prototype.startsWith
StartsWith(s, p) == Len(s) >= Len(p) /\ SubSeq(s, 1, Len(p)) = p

\* String.prototype.includes
Includes(s, sub) ==
  \E i \in 0..(Len(s) - Len(sub)) : SubSeq(s, i + 1, i + Len(sub)) = sub

\* String.prototype.trim (the only white space of the model is the blank)
RECURSIVE TrimStart(_)
TrimStart(s) == IF s # <<>> /\ Head(s) = " " THEN TrimStart(Tail(s)) ELSE s
RECURSIVE TrimEnd(_)
TrimEnd(s) ==
  IF s # <<>> /\ s[Len(s)] = " " THEN TrimEnd(SubSeq(s, 1, Len(s) - 1)) ELSE s
Trim(s) == TrimEnd(TrimStart(s))

\* s.split(' ')[0]: the text before the first blank
RECURSIVE SplitFirst(_)
SplitFirst(s) ==
  IF s = <<>> \/ Head(s) = " " THEN <<>> ELSE <<Head(s)>> \o SplitFirst(Tail(s))

\* words.join(' ')
RECURSIVE Join(_)
Join(words) ==
  IF words = <<>> THEN <<>>
  ELSE IF Len(words) = 1 THEN words[1]
  ELSE words[1] \o <<" ">> \o Join(Tail(words))

\* the character class [a-zA-Z0-9_]
WordChars == LowerSet \cup UpperSet \cup Range(DigitChars) \cup {"_"}
IsWordChar(c) == c \in WordChars

\* a variant of sanitize that strips nothing
sanitize_keepAll(s) == s

\* table.replace(/[^a-zA-Z0-9_]/g, '')
sanitize(s) == SelectSeq(s, IsWordChar)

\* sequences over S of length lo..hi
SeqsOf(S, lo, hi) == UNION {[1..n -> S] : n \in lo..hi}

\* literals of the code
T_true    == <<"t","r","u","e">>
T_one     == <<"1">>
T_yes     == <<"y","e","s">>
T_CREATE  == <<"C","R","E","A","T","E">>
T_UPDATE  == <<"U","P","D","A","T","E">>
T_ALTER   == <<"A","L","T","E","R">>
T_DELETE  == <<"D","E","L","E","T","E">>
T_INSERT  == <<"I","N","S","E","R","T">>
T_CREATE_TABLE == T_CREATE \o <<" ">> \o <<"T","A","B","L","E">>
T_insert  == <<"i","n","s","e","r","t">>
T_update  == <<"u","p","d","a","t","e">>
T_delete  == <<"d","e","l","e","t","e">>

---------------------------------------------------------------------------
(* JavaScript values                                                       *)

\* a value that is a string, undefined, or a number (the non-text case)
Str(s) == [t |-> "string", s |-> s]
Undefined == [t |-> "undefined", s |-> <<>>]
Number == [t |-> "number", s |-> <<>>]

\* a boolean, as the parsed policy flags are
Bool(b) == [t |-> "boolean", s |-> IF b THEN T_true ELSE <<>>]

\* JavaScript truthiness (the model's number is not 0)
Truthy(v) ==
  CASE v.t = "undefined" -> FALSE
    [] v.t = "string"    -> v.s # <<>>
    [] v.t = "number"    -> TRUE
    [] v.t = "boolean"   -> v.s = T_true

\* an object with the given keys, or undefined
Obj(keys) == [t |-> "object", keys |-> keys]
\* an array argument: typeof gives 'object', Object.keys its indices
Arr(keys) == [t |-> "array", keys |-> keys]
NoObj == [t |-> "undefined", keys |-> {}]

\* a variant of EmptyOrMissing without the test for an empty mapping
EmptyOrMissing_typeOnly(o) == o.t \notin {"object", "array"}

\* !x || typeof x !== 'object' || Object.keys(x).length === 0
EmptyOrMissing(o) == o.t \notin {"object", "array"} \/ o.keys = {}

---------------------------------------------------------------------------
(* Configuration: src/src/config/env.ts                                    *)

FlagNames == {"ALLOW_CREATE_OPERATIONS", "ALLOW_UPDATE_OPERATIONS",
              "ALLOW_DELETE_OPERATIONS"}

\* parseBoolean(value, defaultValue)
parseBoolean(value, defaultValue) ==
  IF value.t = "undefined" THEN Bool(defaultValue)
  ELSE Bool(ToLowerCase(value.s) \in {T_true, T_one, T_yes})

\* The mapping loadEnvVars returns for the parsed lines `file` of the .env
\* file: the spread of the raw lines comes last in the object literal, so a
\* key that is in the file keeps its raw text.
loadEnvVars(file) ==
  [k \in DOMAIN file |->
     IF k \in FlagNames
     THEN IF file[k].t = "undefined" THEN parseBoolean(file[k], FALSE)
          ELSE file[k]
     ELSE IF file[k].t = "undefined" THEN Str(<<>>) ELSE file[k]]

\* shouldUseServiceKey(operationType), reading the loaded environment e
shouldUseServiceKey(e, operationType) ==
  LET type == ToUpperCase(operationType) IN
  IF StartsWith(type, T_CREATE) /\ ~Truthy(e["ALLOW_CREATE_OPERATIONS"])
  THEN TRUE
  ELSE IF (StartsWith(type, T_UPDATE) \/ StartsWith(type, T_ALTER))
          /\ ~Truthy(e["ALLOW_UPDATE_OPERATIONS"])
  THEN TRUE
  ELSE IF StartsWith(type, T_DELETE) /\ ~Truthy(e["ALLOW_DELETE_OPERATIONS"])
  THEN TRUE
  ELSE FALSE

---------------------------------------------------------------------------
(* Client handles: src/src/services/supabase.ts                            *)

\* the module variables supabaseClient and supabaseServiceClient hold null
\* or the handle createClient built, which remembers the key it was built with
Null == [key |-> "null"]
createClient(keyName) == [key |-> keyName]

\* getSupabaseClient(): the handle, the cache after the call, or a throw;
\* built counts the calls of createClient it made.
\* SUPABASE_PROJECT_URL and SUPABASE_API_KEY are set in every running
\* process: the module's last line calls getSupabaseClient() on import.
getSupabaseClient(e, std) ==
  IF std # Null
  THEN [threw |-> FALSE, client |-> std, cache |-> std, built |-> 0]
  ELSE IF ~Truthy(e["SUPABASE_API_KEY"])
  THEN [threw |-> TRUE, client |-> Null, cache |-> std, built |-> 0]
  ELSE [threw |-> FALSE, client |-> createClient("SUPABASE_API_KEY"),
        cache |-> createClient("SUPABASE_API_KEY"), built |-> 1]

\* a variant of getSupabaseServiceClient that does not look at the cached
\* handle
getSupabaseServiceClient_withoutCache(e, svc) ==
  IF ~Truthy(e["SUPABASE_SERVICE_KEY"])
  THEN [threw |-> TRUE, client |-> Null, cache |-> svc, built |-> 0]
  ELSE [threw |-> FALSE, client |-> createClient("SUPABASE_SERVICE_KEY"),
        cache |-> createClient("SUPABASE_SERVICE_KEY"), built |-> 1]

\* getSupabaseServiceClient()
getSupabaseServiceClient(e, svc) ==
  IF svc # Null
  THEN [threw |-> FALSE, client |-> svc, cache |-> svc, built |-> 0]
  ELSE IF ~Truthy(e["SUPABASE_SERVICE_KEY"])
  THEN [threw |-> TRUE, client |-> Null, cache |-> svc, built |-> 0]
  ELSE [threw |-> FALSE, client |-> createClient("SUPABASE_SERVICE_KEY"),
        cache |-> createClient("SUPABASE_SERVICE_KEY"), built |-> 1]

\* a variant of selectClient in which obtaining one tier's handle clears the
\* cached handle of the other tier
selectClient_clearsOther(e, c, useServiceRole) ==
  IF useServiceRole
  THEN LET g == getSupabaseServiceClient(e, c.svc) IN
       [threw |-> g.threw, client |-> g.client,
        cache |-> [std |-> Null, svc |-> g.cache,
                   built |-> [c.built EXCEPT !.svc = @ + g.built]],
        message |-> "Missing Supabase service key configuration"]
  ELSE LET g == getSupabaseClient(e, c.std) IN
       [threw |-> g.threw, client |-> g.client,
        cache |-> [std |-> g.cache, svc |-> Null,
                   built |-> [c.built EXCEPT !.std = @ + g.built]],
        message |-> "Missing Supabase configuration"]

\* useServiceRole ? getSupabaseServiceClient() : getSupabaseClient()
\* c is the pair of cached handles [std, svc], with the number of handles
\* built so far for each tier
selectClient(e, c, useServiceRole) ==
  IF useServiceRole
  THEN LET g == getSupabaseServiceClient(e, c.svc) IN
       [threw |-> g.threw, client |-> g.client,
        cache |-> [std |-> c.std, svc |-> g.cache,
                   built |-> [c.built EXCEPT !.svc = @ + g.built]],
        message |-> "Missing Supabase service key configuration"]
  ELSE LET g == getSupabaseClient(e, c.std) IN
       [threw |-> g.threw, client |-> g.client,
        cache |-> [std |-> g.cache, svc |-> c.svc,
                   built |-> [c.built EXCEPT !.std = @ + g.built]],
        message |-> "Missing Supabase configuration"]

---------------------------------------------------------------------------
(* The backend                                                             *)

\* what one backend call can do: answer with data, answer with an error
\* field, or fail with a thrown fault
Outcomes == {"ok", "error", "throw"}

\* what the backend did with a call: the kind of its answer, and for an
\* answer that is an array its elements
Answer(kind, items) ==
  [kind |-> kind, items |-> items, procedure |-> "unknown", applied |-> <<>>]
NoAnswer == Answer("none", <<>>)

\* a backend call: the key of the handle it was made with, the remote
\* procedure or structured verb, what it carries, and the backend's answer
RpcCall(client, fn, sql, ops) ==
  [client |-> client.key, kind |-> "rpc", fn |-> fn, table |-> <<>>,
   sql |-> sql, ops |-> ops, filter |-> NoObj, answer |-> NoAnswer]
FromCall(client, verb, table, filter) ==
  [client |-> client.key, kind |-> "from", fn |-> verb, table |-> table,
   sql |-> <<>>, ops |-> <<>>, filter |-> filter, answer |-> NoAnswer]
Answered(call, answer) == [call EXCEPT !.answer = answer]

\* what an executor hands back: a {data, error} result, the backend calls it
\* issued, the cached handles afterwards; or a throw that leaves the executor
Returned(data, error, cs, cache) ==
  [threw |-> FALSE, data |-> data, error |-> error, message |-> "",
   calls |-> cs, cache |-> cache]
Thrown(message, cache) ==
  [threw |-> TRUE, data |-> "null", error |-> "null", message |-> message,
   calls |-> <<>>, cache |-> cache]

\* the {data, error} of an awaited call inside try/catch: the reply as it is,
\* or the catch block's error
Awaited(out, caughtMessage, call, cache) ==
  LET cs == <<Answered(call, Answer(out, <<>>))>> IN
  CASE out = "ok"    -> Returned("rows", "null", cs, cache)
    [] out = "error" -> Returned("null", "backend error", cs, cache)
    [] out = "throw" -> Returned("null", caughtMessage, cs, cache)

---------------------------------------------------------------------------
(* Operation executors: src/src/services/supabase.ts                       *)

\* public.sqlwrite(query), the procedure the createTable tool calls: the
\* operation it reads off the statement, and the JSONB it returns; raises
\* tells whether EXECUTE query raised, which the procedure's EXCEPTION block
\* catches
sqlwriteOperation(query) ==
  LET trimmed == Trim(query)
  IN ToUpperCase(SubSeq(trimmed, 1, IF Len(trimmed) < 6 THEN Len(trimmed) ELSE 6))
sqlwriteAllows(query) ==
  sqlwriteOperation(query)
    \in {T_CREATE, T_INSERT, T_UPDATE, T_DELETE, T_ALTER \o <<" ">>}
sqlwrite(query, raises) ==
  IF ~sqlwriteAllows(query)
  THEN "{error: true, message: 'Operation not allowed'}"
  ELSE IF raises
  THEN "{error: true, message: SQLERRM, detail: SQLSTATE, query: query}"
  ELSE IF sqlwriteOperation(query) \in {T_INSERT, T_UPDATE, T_DELETE}
  THEN "{success: true, affected_rows: result}"
  ELSE "{success: true, message: 'Operation executed successfully'}"

\* executeWriteSqlQuery(sql); out is "ok" or "raises" when the procedure ran
\* and returned its JSONB as the data of the reply
executeWriteSqlQuery(sql, e, c, out) ==
  LET operationType == ToUpperCase(SplitFirst(Trim(sql)))
      useServiceRole == shouldUseServiceKey(e, operationType)
      sel == selectClient(e, c, useServiceRole)
      call == RpcCall(sel.client, "sqlwrite", sql, <<>>)
  IN IF sel.threw THEN Thrown(sel.message, sel.cache)
     ELSE IF out \in {"ok", "raises"}
     THEN Returned(sqlwrite(sql, out = "raises"), "null",
                   <<Answered(call, Answer(out, <<>>))>>, sel.cache)
     ELSE Awaited(out, "SQL write operation failed", call, sel.cache)

\* a variant of executeSqlQuery that selects its handle as executeWriteSqlQuery
\* does, by the first token of the statement
executeSqlQuery_byFirstToken(sql, e, c, out) ==
  LET operationType == ToUpperCase(SplitFirst(Trim(sql)))
      sel == selectClient(e, c, shouldUseServiceKey(e, operationType))
  IN IF sel.threw THEN Thrown(sel.message, sel.cache)
     ELSE Awaited(out, "SQL query execution failed",
                  RpcCall(sel.client, "sqlquery", sql, <<>>), sel.cache)

\* executeSqlQuery(sql)
executeSqlQuery(sql, e, c, out) ==
  LET sel == selectClient(e, c, FALSE)
  IN IF sel.threw THEN Thrown(sel.message, sel.cache)
     ELSE Awaited(out, "SQL query execution failed",
                  RpcCall(sel.client, "sqlquery", sql, <<>>), sel.cache)

\* executeInsert(table, values, returning)
executeInsert(table, values, e, c, out) ==
  LET useServiceRole == shouldUseServiceKey(e, T_INSERT)
      sel == selectClient(e, c, useServiceRole)
  IN IF sel.threw THEN Thrown(sel.message, sel.cache)
     ELSE Awaited(out, "Failed to insert",
                  FromCall(sel.client, "insert", table, NoObj), sel.cache)

\* executeUpdate(table, values, filter, returning)
executeUpdate(table, values, filter, e, c, out) ==
  LET useServiceRole == shouldUseServiceKey(e, T_UPDATE)
      sel == selectClient(e, c, useServiceRole)
  IN IF sel.threw THEN Thrown(sel.message, sel.cache)
     ELSE Awaited(out, "Failed to update records",
                  FromCall(sel.client, "update", table, filter), sel.cache)

\* executeDelete(table, filter, returning)
executeDelete(table, filter, e, c, out) ==
  LET useServiceRole == shouldUseServiceKey(e, T_DELETE)
      sel == selectClient(e, c, useServiceRole)
  IN IF sel.threw THEN Thrown(sel.message, sel.cache)
     ELSE IF filter.keys = {}
     THEN Returned("null", "Delete operations require a filter", <<>>,
                   sel.cache)
     ELSE Awaited(out, "Failed to delete records",
                  FromCall(sel.client, "delete", table, filter), sel.cache)

---------------------------------------------------------------------------
(* Tool handlers: handleCallTool, src/src/services/mcp-handlers.ts         *)

\* the JSON text of a response: the fields the handlers write; a field a
\* reply does not carry is "absent"
Payload(success, error, message, errors, results) ==
  [success |-> success, error |-> error, message |-> message,
   errors |-> errors, results |-> results, data |-> "absent"]

\* a variant of ErrorReply that does not set the protocol flag
ErrorReply_notFlagged(message) ==
  [isError |-> FALSE,
   payload |-> Payload("absent", "true", message, <<>>, <<>>)]

\* { error: true, message } with isError: true
ErrorReply(message) ==
  [isError |-> TRUE,
   payload |-> Payload("absent", "true", message, <<>>, <<>>)]

\* { success: true, message, data } with isError: false
SuccessReply(message) ==
  [isError |-> FALSE,
   payload |-> Payload("true", "absent", message, <<>>, <<>>)]

\* what handling a request comes to: the response, the backend calls issued
\* on the way, and the cached handles afterwards
Handled(resp, cs, cache) == [response |-> resp, calls |-> cs, cache |-> cache]

\* a variant of ReplyTo that does not look at the error field
ReplyTo_ignoringErrorField(r, successMessage) ==
  IF r.threw THEN Handled(ErrorReply(r.message), r.calls, r.cache)
  ELSE Handled([SuccessReply(successMessage) EXCEPT !.payload.data = r.data],
               r.calls, r.cache)

\* the reply of a single-statement tool to what its executor handed back
ReplyTo(r, successMessage) ==
  IF r.threw THEN Handled(ErrorReply(r.message), r.calls, r.cache)
  ELSE IF r.error # "null"
  THEN Handled(ErrorReply(r.error), r.calls, r.cache)
  ELSE Handled([SuccessReply(successMessage) EXCEPT !.payload.data = r.data],
               r.calls, r.cache)

\* name === "query"
queryTool(args, e, c, out) ==
  LET r == executeSqlQuery(args.sql, e, c, out) IN
  IF r.threw THEN Handled(ErrorReply(r.message), r.calls, r.cache)
  ELSE IF r.error # "null"
  THEN Handled(ErrorReply(r.error), r.calls, r.cache)
  ELSE Handled([isError |-> FALSE,
                payload |-> Payload("absent", "absent", "data", <<>>, <<>>)],
               r.calls, r.cache)

\* name === "createTable"
createTableTool(args, e, c, out) ==
  IF ~Includes(ToUpperCase(args.sql), T_CREATE_TABLE)
  THEN Handled(ErrorReply("SQL statement must be a CREATE TABLE statement"),
               <<>>, c)
  ELSE ReplyTo(executeWriteSqlQuery(args.sql, e, c, out),
               "Table created successfully")

\* name === "insertRecord"
insertRecordTool(args, e, c, out) ==
  IF ~Truthy(args.table)
  THEN Handled(ErrorReply("Table name is required"), <<>>, c)
  ELSE IF EmptyOrMissing(args.values)
  THEN Handled(ErrorReply("Values object is required"), <<>>, c)
  ELSE IF args.table.t # "string"
  THEN Handled(ErrorReply("table.replace is not a function"), <<>>, c)
  ELSE IF sanitize(args.table.s) # args.table.s
  THEN Handled(ErrorReply("Invalid table name"), <<>>, c)
  ELSE ReplyTo(executeInsert(sanitize(args.table.s), args.values, e, c, out),
               "Record inserted successfully")

\* name === "updateRecord"
updateRecordTool(args, e, c, out) ==
  IF ~Truthy(args.table)
  THEN Handled(ErrorReply("Table name is required"), <<>>, c)
  ELSE IF EmptyOrMissing(args.values)
  THEN Handled(ErrorReply("Values object is required"), <<>>, c)
  ELSE IF EmptyOrMissing(args.filter)
  THEN Handled(ErrorReply("Filter object is required"), <<>>, c)
  ELSE IF args.table.t # "string"
  THEN Handled(ErrorReply("table.replace is not a function"), <<>>, c)
  ELSE IF sanitize(args.table.s) # args.table.s
  THEN Handled(ErrorReply("Invalid table name"), <<>>, c)
  ELSE ReplyTo(executeUpdate(sanitize(args.table.s), args.values,
                             args.filter, e, c, out),
               "Record(s) updated successfully")

\* name === "deleteRecord"
deleteRecordTool(args, e, c, out) ==
  IF ~Truthy(args.table)
  THEN Handled(ErrorReply("Table name is required"), <<>>, c)
  ELSE IF EmptyOrMissing(args.filter)
  THEN Handled(ErrorReply("Filter object is required"), <<>>, c)
  ELSE IF args.table.t # "string"
  THEN Handled(ErrorReply("table.replace is not a function"), <<>>, c)
  ELSE IF sanitize(args.table.s) # args.table.s
  THEN Handled(ErrorReply("Invalid table name"), <<>>, c)
  ELSE IF args.filter.keys = {}
  THEN Handled(ErrorReply("Delete operations require a filter"), <<>>, c)
  ELSE ReplyTo(executeDelete(sanitize(args.table.s), args.filter, e, c, out),
               "Record(s) deleted successfully")

---------------------------------------------------------------------------
(* executeTransaction: src/src/services/supabase.ts                        *)

\* what the remote call of execute_transaction can come to: a thrown fault,
\* an error field, or data that is null, a non-array object, or an array of
\* per-operation replies ("data" or "error")
\* "missing" is the error field of a project without the procedure
TxReplies(n) ==
  {Answer(k, <<>>) : k \in {"throw", "error", "missing", "null", "object"}}
    \cup {Answer("array", it) : it \in SeqsOf({"data", "error"}, 0, n + 1)}

\* execute_transaction(operations_json), the procedure of the transaction
\* document (src/unnamed/part_005). What one statement does to the database:
\* table and columns are written with %I or quote_ident, their values with
\* quote_nullable; returning is the text written as it is (%s) after RETURNING
Effect(type, table, columns, where, returning) ==
  [type |-> type, table |-> table, columns |-> columns, where |-> where,
   returning |-> returning]

\* one pass of the procedure's loop: an error entry and CONTINUE, or the
\* statement it builds and EXECUTEs
executeTransactionStep(op) ==
  LET isObject(x) == x.t = "object" IN
  CASE op.type = T_insert ->
         IF ~isObject(op.values) THEN [kind |-> "error", effect |-> <<>>]
         ELSE [kind |-> "execute",
               effect |-> Effect("insert", op.table, op.values.keys, {},
                                 op.returning)]
    [] op.type = T_update ->
         IF ~isObject(op.values) \/ ~isObject(op.filter)
         THEN [kind |-> "error", effect |-> <<>>]
         ELSE \* params is emptied and refilled from the filter before the
              \* SET clause is formatted from it
              IF op.filter.keys # {}
              THEN [kind |-> "execute",
                    effect |-> Effect("update", op.table, op.filter.keys,
                                      op.filter.keys, op.returning)]
              ELSE [kind |-> "execute",
                    effect |-> Effect("update", op.table, op.values.keys, {},
                                      op.returning)]
    [] op.type = T_delete ->
         IF ~isObject(op.filter) \/ op.filter.keys = {}
         THEN [kind |-> "error", effect |-> <<>>]
         ELSE [kind |-> "execute",
               effect |-> Effect("delete", op.table, {}, op.filter.keys,
                                 op.returning)]
    [] OTHER -> [kind |-> "error", effect |-> <<>>]

\* the loop from operation i on; raisesAt is the operation whose EXECUTE
\* raises (0: none does). An exception leaves the procedure, whose work is
\* then undone, and the call answers with an error field.
RECURSIVE executeTransactionLoop(_, _, _, _, _)
executeTransactionLoop(operations, i, raisesAt, results, applied) ==
  IF i > Len(operations)
  THEN [kind |-> "array", items |-> results,
        procedure |-> "execute_transaction", applied |-> applied]
  ELSE LET step == executeTransactionStep(operations[i]) IN
       IF step.kind = "error"
       THEN executeTransactionLoop(operations, i + 1, raisesAt,
                                   Append(results, "error"), applied)
       ELSE IF raisesAt = i
       THEN [kind |-> "error", items |-> <<>>,
             procedure |-> "execute_transaction", applied |-> <<>>]
       ELSE executeTransactionLoop(operations, i + 1, raisesAt,
                                   Append(results, "data"),
                                   Append(applied, step.effect))

\* the answers of a project in which that procedure is installed
ProcedureReplies(operations) ==
  {executeTransactionLoop(operations, 1, k, <<>>, <<>>) :
     k \in 0..Len(operations)}

\* a variant of transactionUsesServiceRole that leaves deletes out
transactionUsesServiceRole_withoutDelete(e, operations) ==
  LET hasInsert == \E i \in DOMAIN operations : operations[i].type = T_insert
      hasUpdate == \E i \in DOMAIN operations : operations[i].type = T_update
  IN \/ hasInsert /\ shouldUseServiceKey(e, T_INSERT)
     \/ hasUpdate /\ shouldUseServiceKey(e, T_UPDATE)

\* lines 444-451: service role if an operation kind of the batch asks for it
transactionUsesServiceRole(e, operations) ==
  LET hasInsert == \E i \in DOMAIN operations : operations[i].type = T_insert
      hasUpdate == \E i \in DOMAIN operations : operations[i].type = T_update
      hasDelete == \E i \in DOMAIN operations : operations[i].type = T_delete
  IN \/ hasInsert /\ shouldUseServiceKey(e, T_INSERT)
     \/ hasUpdate /\ shouldUseServiceKey(e, T_UPDATE)
     \/ hasDelete /\ shouldUseServiceKey(e, T_DELETE)

\* one entry of results
ResultEntry(success, operation, error) ==
  [success |-> success, operation |-> operation, error |-> error]

\* a variant of TxResult in which one failed entry fails the whole
TxResult_failedEntryFailsAll(success, results, error, cs, cache) ==
  [threw |-> FALSE,
   success |-> success /\ \A i \in DOMAIN results : results[i].success,
   results |-> results, error |-> error, message |-> "", calls |-> cs,
   cache |-> cache]

TxResult(success, results, error, cs, cache) ==
  [threw |-> FALSE, success |-> success, results |-> results,
   error |-> error, message |-> "", calls |-> cs, cache |-> cache]

\* executeTransaction(operations)
executeTransaction(operations, e, c, reply) ==
  LET sel == selectClient(e, c, transactionUsesServiceRole(e, operations))
      call == Answered(RpcCall(sel.client, "execute_transaction", <<>>,
                               operations),
                       reply)
  IN IF sel.threw
     THEN [threw |-> TRUE, success |-> FALSE, results |-> <<>>,
           error |-> "null", message |-> sel.message, calls |-> <<>>,
           cache |-> sel.cache]
     ELSE CASE reply.kind = "throw" ->
                 TxResult(FALSE, <<>>,
                          "Transaction failed due to an unexpected error",
                          <<call>>, sel.cache)
            [] reply.kind \in {"error", "missing"} ->
                 TxResult(FALSE, <<>>, "Transaction failed", <<call>>,
                          sel.cache)
            [] reply.kind \in {"null", "object"} ->
                 TxResult(FALSE, <<>>,
                          "Transaction failed - execute_transaction RPC function not available",
                          <<call>>, sel.cache)
            [] reply.kind = "array" ->
                 IF Len(reply.items) < Len(operations)
                 THEN \* data[i] is undefined: reading result.error throws
                      TxResult(FALSE, <<>>,
                               "Transaction failed due to an unexpected error",
                               <<call>>, sel.cache)
                 ELSE TxResult(TRUE,
                               [i \in 1..Len(operations) |->
                                  ResultEntry(reply.items[i] # "error",
                                              operations[i],
                                              IF reply.items[i] = "error"
                                              THEN "backend error" ELSE "null")],
                               "absent", <<call>>, sel.cache)

---------------------------------------------------------------------------
(* batchOperations: handleCallTool, src/src/services/mcp-handlers.ts       *)

\* one operation of a batch, as the caller wrote it
OpReturning(type, table, values, filter, returning) ==
  [type |-> type, table |-> table, values |-> values, filter |-> filter,
   returning |-> returning]
\* an operation that names no returning columns
Op(type, table, values, filter) ==
  OpReturning(type, table, values, filter, Undefined)

\* const { ..., returning = '*' } = operation
returningOr(arg) == IF arg.t = "undefined" THEN <<"*">> ELSE arg.s

\* the body of the validation loop for one operation: an error recorded
\* (continue), a TypeError thrown, or the sanitized operation
validateOperation(op) ==
  IF ~Truthy(op.type)
  THEN [kind |-> "error", error |-> "Operation type is required", op |-> op]
  ELSE IF ~Truthy(op.table)
  THEN [kind |-> "error", error |-> "Table name is required", op |-> op]
  ELSE IF op.table.t # "string"
  THEN [kind |-> "throw", error |-> "table.replace is not a function",
        op |-> op]
  ELSE IF sanitize(op.table.s) # op.table.s
  THEN [kind |-> "error", error |-> "Invalid table name", op |-> op]
  ELSE IF op.type.t # "string"
  THEN [kind |-> "throw", error |-> "type.toLowerCase is not a function",
        op |-> op]
  ELSE LET type == ToLowerCase(op.type.s)
           sanitized == [type |-> type, table |-> sanitize(op.table.s),
                         values |-> op.values, filter |-> op.filter,
                         returning |-> returningOr(op.returning)]
       IN CASE type = T_insert ->
                 IF EmptyOrMissing(op.values)
                 THEN [kind |-> "error", op |-> op,
                       error |-> "Values object is required for insert operations"]
                 ELSE [kind |-> "ok", error |-> "", op |-> sanitized]
            [] type = T_update ->
                 IF EmptyOrMissing(op.values)
                 THEN [kind |-> "error", op |-> op,
                       error |-> "Values object is required for update operations"]
                 ELSE IF EmptyOrMissing(op.filter)
                 THEN [kind |-> "error", op |-> op,
                       error |-> "Filter object is required for update operations"]
                 ELSE [kind |-> "ok", error |-> "", op |-> sanitized]
            [] type = T_delete ->
                 IF EmptyOrMissing(op.filter)
                 THEN [kind |-> "error", op |-> op,
                       error |-> "Filter object is required for delete operations"]
                 ELSE [kind |-> "ok", error |-> "", op |-> sanitized]
            [] OTHER ->
                 [kind |-> "error", error |-> "Unknown operation type",
                  op |-> op]

\* the validation loop from operation i on (i counts from 1; the recorded
\* index is the code's, from 0)
RECURSIVE validateFrom(_, _, _, _)
validateFrom(operations, i, sanitizedOperations, validationErrors) ==
  IF i > Len(operations)
  THEN [threw |-> FALSE, message |-> "",
        sanitizedOperations |-> sanitizedOperations,
        validationErrors |-> validationErrors]
  ELSE LET v == validateOperation(operations[i]) IN
       CASE v.kind = "throw" ->
              [threw |-> TRUE, message |-> v.error,
               sanitizedOperations |-> sanitizedOperations,
               validationErrors |-> validationErrors]
         [] v.kind = "error" ->
              validateFrom(operations, i + 1, sanitizedOperations,
                           Append(validationErrors,
                                  [index |-> i - 1, error |-> v.error]))
         [] v.kind = "ok" ->
              validateFrom(operations, i + 1,
                           Append(sanitizedOperations, v.op), validationErrors)

\* the executor call of one operation of the sequential loop
executeOperation(op, e, c, out) ==
  CASE op.type = T_insert -> executeInsert(op.table, op.values, e, c, out)
    [] op.type = T_update ->
         executeUpdate(op.table, op.values, op.filter, e, c, out)
    [] op.type = T_delete -> executeDelete(op.table, op.filter, e, c, out)
    [] OTHER -> Returned("null", "Unknown operation type", <<>>, c)

\* results.push(...) and errors.push(...) for operation i (index i - 1 in
\* the request), whose executor came to r
pushed(acc, i, op, r) ==
  LET failure == IF r.threw THEN r.message ELSE r.error
      failed == r.threw \/ r.error # "null"
  IN [results |-> Append(acc.results, ResultEntry(~failed, op, failure)),
      errors |-> IF failed
                 THEN Append(acc.errors, [index |-> i - 1, error |-> failure])
                 ELSE acc.errors,
      calls |-> acc.calls \o r.calls,
      cache |-> r.cache]

\* a variant of runSequential that stops at the first failed operation
RECURSIVE runSequential_stopAtFailure(_, _, _, _, _, _)
RECURSIVE stopAtFailureOn(_, _, _, _, _)
runSequential_stopAtFailure(operations, i, outs, e, c, acc) ==
  IF i > Len(operations) \/ acc.errors # <<>> THEN [acc EXCEPT !.cache = c]
  ELSE stopAtFailureOn(operations, i + 1, outs, e,
                       pushed(acc, i, operations[i],
                              executeOperation(operations[i], e, c, outs[i])))
stopAtFailureOn(operations, i, outs, e, acc) ==
  runSequential_stopAtFailure(operations, i, outs, e, acc.cache, acc)

\* the sequential loop from operation i on; outs[i] is what the backend does
\* with the call of operation i. One turn: r is what the executor of
\* operation i came to, a the arrays after its result is pushed.
RECURSIVE runSequential(_, _, _, _, _, _)
RECURSIVE runSequentialOn(_, _, _, _, _)
runSequential(operations, i, outs, e, c, acc) ==
  IF i > Len(operations) THEN [acc EXCEPT !.cache = c]
  ELSE CHOOSE after \in
         {runSequentialOn(operations, i + 1, outs, e, a) :
            a \in {pushed(acc, i, operations[i], r) :
                     r \in {executeOperation(operations[i], e, c, outs[i])}}} :
         TRUE

\* the loop's next turn, with the handles the turn before left cached
runSequentialOn(operations, i, outs, e, acc) ==
  runSequential(operations, i, outs, e, acc.cache, acc)

\* a variant of useTransactionOr whose default is false
useTransactionOr_defaultFalse(arg) == arg = "true"

\* const { operations, useTransaction = true }: the mode an argument selects
useTransactionOr(arg) == arg # "false"

\* the reply to what executeTransaction handed back, lines 653-667
transactionReply(r) ==
  [isError |-> ~r.success,
   payload |-> Payload(IF r.success THEN "true" ELSE "false", r.error,
                       IF r.success
                       THEN "Successfully executed operations in a transaction"
                       ELSE "Transaction failed",
                       <<>>, r.results)]

\* the reply after the sequential loop, lines 740-752
sequentialReply(r) ==
  [isError |-> r.errors # <<>>,
   payload |-> Payload(IF r.errors = <<>> THEN "true" ELSE "false", "absent",
                       "Processed operations", r.errors, r.results)]

\* the replies before the first await: no operations (lines 557-561), an
\* exception during validation (the catch block of lines 754-765), or
\* validation errors (lines 632-647); v is what the validation loop made
rejectionReply(operations, v) ==
  IF operations = <<>> THEN ErrorReply("Operations array is required")
  ELSE IF v.threw THEN ErrorReply(v.message)
  ELSE [isError |-> TRUE,
        payload |-> Payload("false", "absent", "Validation failed",
                            v.validationErrors, <<>>)]

\* the handler's reply for what executeTransaction came to
transactionHandled(r) ==
  IF r.threw THEN Handled(ErrorReply(r.message), r.calls, r.cache)
  ELSE Handled(transactionReply(r), r.calls, r.cache)

\* the handler's reply for what the sequential loop came to
sequentialHandled(r) == Handled(sequentialReply(r), r.calls, r.cache)

\* the handler after its validation loop, which made v
batchOperationsValidated(args, v, e, c, reply, outs) ==
  IF args.operations = <<>> \/ v.threw \/ v.validationErrors # <<>>
  THEN Handled(rejectionReply(args.operations, v), <<>>, c)
  ELSE IF useTransactionOr(args.useTransaction)
  THEN transactionHandled(
         executeTransaction(v.sanitizedOperations, e, c, reply))
  ELSE sequentialHandled(
         runSequential(v.sanitizedOperations, 1, outs, e, c,
                       [results |-> <<>>, errors |-> <<>>, calls |-> <<>>,
                        cache |-> c]))

\* name === "batchOperations"; args.useTransaction is "absent", "true" or
\* "false"; reply is the remote transaction's answer, outs the answers to the
\* sequential calls
batchOperationsTool(args, e, c, reply, outs) ==
  batchOperationsValidated(args, validateFrom(args.operations, 1, <<>>, <<>>),
                           e, c, reply, outs)

---------------------------------------------------------------------------
(* Resources: listTables, getTableSchema (supabase.ts) and                 *)
(* handleListResources, handleReadResource (mcp-handlers.ts)               *)

\* a resource URI, by its parts: scheme://host/seg/table
Uri(scheme, host, seg, table) ==
  [scheme |-> scheme, host |-> host, seg |-> seg, table |-> table]

\* createResourceUri(tableName)
createResourceUri(tableName) ==
  Uri("supabase", "project.supabase.co", "tables", tableName)

\* a reply of the resource handlers, which carries no isError field: the
\* resources (or nothing) are in results, the text of the contents in message
ResourceReply(text, resources) ==
  [isError |-> FALSE,
   payload |-> Payload("absent", "absent", text, <<>>, resources)]

\* handleListResources(), listTables() inlined: listing is the table_name
\* column of the rows the backend answers with
handleListResources(e, c, out, listing) ==
  LET r == executeSqlQuery(<<"SELECT table_name FROM information_schema.tables">>,
                           e, c, out)
  IN IF r.threw THEN Handled(ResourceReply("resources", <<>>), r.calls, r.cache)
     ELSE IF r.error # "null"
     THEN Handled(ResourceReply("resources", <<>>), r.calls, r.cache)
     ELSE Handled(ResourceReply("resources",
                                [i \in 1..Len(listing) |->
                                   createResourceUri(listing[i])]),
                  r.calls, r.cache)

\* getTableSchema(tableName): the statement names the sanitized table name,
\* which the model keeps in the call's table field
getTableSchema(tableName, e, c, out) ==
  LET sanitizedTableName == sanitize(tableName)
      r == executeSqlQuery(<<"SELECT column_name, data_type FROM information_schema.columns WHERE table_name = '">>
                             \o sanitizedTableName \o <<"'">>,
                           e, c, out)
  IN [r EXCEPT !.calls = [i \in 1..Len(r.calls) |->
                            [r.calls[i] EXCEPT !.table = sanitizedTableName]]]

\* handleReadResource(request): the URI pattern
\* supabase:\/\/[^\/]+\/tables\/([^\/]+) and the schema read
handleReadResource(uri, e, c, out) ==
  IF ~(uri.scheme = "supabase" /\ uri.host # "" /\ uri.seg = "tables"
       /\ uri.table # <<>>)
  THEN Handled(ResourceReply("Invalid resource URI", <<>>), <<>>, c)
  ELSE LET r == getTableSchema(uri.table, e, c, out) IN
       IF r.threw THEN Handled(ResourceReply(r.message, <<>>), r.calls, r.cache)
       ELSE IF r.error # "null"
       THEN Handled(ResourceReply("Could not access schema with current permissions",
                                  <<>>),
                    r.calls, r.cache)
       ELSE Handled(ResourceReply("schema", <<>>), r.calls, r.cache)

---------------------------------------------------------------------------
(* The logger: utils/logging.ts (src/unnamed/part_002)                     *)

\* a JSON object by its fields, a function from its keys to their values
JsonObj(fields) == [t |-> "object", fields |-> fields]
\* a call without the data argument
NoData == [t |-> "undefined"]

\* JSON.parse(JSON.stringify(data)): a new value, built field by field
RECURSIVE jsonCopy(_)
jsonCopy(v) ==
  IF v.t = "object"
  THEN JsonObj([k \in DOMAIN v.fields |-> jsonCopy(v.fields[k])])
  ELSE v

\* truthiness of a JSON value: an object is truthy, a string unless empty
TruthyJson(v) == v.t = "object" \/ (v.t = "string" /\ v.s # <<>>)

Stars == Str(<<"*", "*", "*", "*", "*", "*", "*", "*">>)

\* if (o[key]) o[key] = '********'
masked(o, key) ==
  IF key \in DOMAIN o.fields /\ TruthyJson(o.fields[key])
  THEN JsonObj([o.fields EXCEPT ![key] = Stars])
  ELSE o

\* formatMessage(level, message, data): the text, whose body is what
\* JSON.stringify(safeData, null, 2) prints, and the caller's data afterwards
formatMessage(level, message, data) ==
  IF data.t # "object"
  THEN [text |-> [level |-> level, message |-> message, body |-> NoData],
        data |-> data]
  ELSE LET safeData ==
             masked(masked(jsonCopy(data), "password"), "DB_PASSWORD")
       IN [text |-> [level |-> level, message |-> message, body |-> safeData],
           data |-> data]

\* const levels = [DEBUG, INFO, WARN, ERROR]
LogLevels == <<"DEBUG", "INFO", "WARN", "ERROR">>
indexOf(levels, level) == CHOOSE i \in DOMAIN levels : levels[i] = level

\* shouldLog(level), with the module's currentLogLevel
shouldLog(currentLogLevel, level) ==
  indexOf(LogLevels, level) >= indexOf(LogLevels, currentLogLevel)

\* the logger's state: the level setting, and the last call of a log
\* function with what it wrote to the console
NoText == [level |-> "none", message |-> "", body |-> NoData]
NothingLogged ==
  [currentLogLevel |-> "INFO", level |-> "none", data |-> NoData,
   emitted |-> FALSE, text |-> NoText, after |-> NoData]

---------------------------------------------------------------------------
(* Inputs                                                                  *)

\* the texts a policy flag is configured with; Undefined: not in the file
FlagTexts ==
  {Undefined} \cup
  {Str(s) : s \in {T_true, ToUpperCase(T_true), T_one, T_yes,
                   <<"f","a","l","s","e">>, <<"n","o">>, <<>>}}

\* the .env files of the processes the main specification follows
EnvFiles(flagTexts) ==
  [FlagNames \cup {"SUPABASE_API_KEY", "SUPABASE_SERVICE_KEY"} ->
     flagTexts \cup {Str(<<"k">>)}]

\* characters of the table names tried
NameChars == {"a", "0", "_", ";"}
Names == SeqsOf(NameChars, 0, MaxNameLen)
TableArgs == {Undefined, Number} \cup {Str(n) : n \in Names}
ObjArgs == {NoObj, Obj({}), Obj({"id"})}

SqlWords == {T_CREATE, ToLowerCase(T_CREATE), <<"T","A","B","L","E">>,
             T_ALTER, <<"t">>}
SqlTexts == {Join(w) : w \in SeqsOf(SqlWords, 1, MaxSqlWords)}

\* the operations of the batches tried: the well-formed ones, and each of
\* them with one or two fields made defective
GoodTable == Str(<<"t">>)
\* a returning argument that is an expression, not a list of columns
Subquery == Str(<<"(", "q", ")">>)
GoodOps ==
  {Op(Str(T_insert), GoodTable, Obj({"id"}), NoObj),
   Op(Str(T_insert), GoodTable, Arr({"0"}), NoObj),
   OpReturning(Str(T_insert), GoodTable, Obj({"id"}), NoObj, Subquery),
   Op(Str(T_update), GoodTable, Obj({"name"}), Obj({"id"})),
   Op(Str(T_delete), GoodTable, NoObj, Obj({"id"})),
   Op(Str(T_DELETE), GoodTable, NoObj, Obj({"id"}))}
BadOps ==
  {Op(ty, GoodTable, Obj({"id"}), NoObj) :
     ty \in {Undefined, Number, Str(<<"m","e","r","g","e">>)}}
  \cup {Op(Str(T_insert), tb, Obj({"id"}), NoObj) :
          tb \in {Undefined, Number, Str(<<>>), Str(<<"t", ";">>)}}
  \cup {Op(Str(T_insert), GoodTable, NoObj, NoObj),
        Op(Str(T_update), GoodTable, Obj({}), Obj({})),
        Op(Str(T_update), GoodTable, Obj({"id"}), NoObj),
        Op(Str(T_update), GoodTable, Obj({"id"}), Obj({})),
        Op(Str(T_delete), GoodTable, NoObj, Obj({}))}
BatchOps == GoodOps \cup BadOps
BatchArgs ==
  [operations : SeqsOf(BatchOps, 0, MaxOps),
   useTransaction : {"absent", "true", "false"}]

\* the tables the backend lists
Listings == {<<>>, <<<<"a">>>>, <<<<"a">>, <<"_">>>>, <<<<"a", ";">>>>}

Uris == {Uri("supabase", "project.supabase.co", seg, n) :
           seg \in {"tables", "views"}, n \in Names}

---------------------------------------------------------------------------
(* The server                                                              *)

NoRequest == [name |-> "none"]
NoResponse ==
  [isError |-> FALSE, payload |-> Payload("absent", "absent", "", <<>>, <<>>)]

Cache ==
  [std |-> supabaseClient, svc |-> supabaseServiceClient, built |-> created]

\* the exception that left the handler for the protocol layer, if one did
NotRaised == "none"

\* no executor has been called directly
NoResult == [name |-> "none"]

\* most batchOperations requests in flight at a time
MaxInFlight == 2
Slots == 1..MaxInFlight

\* a backend call issued or completed for an operation of a batch (0: for
\* the whole batch, by the remote transaction)
Event(kind, op) == [kind |-> kind, op |-> op]

\* a handler of batchOperations that is not running, and a running one's
\* position: its state, its sanitized operations, the block lo..hi of
\* operations whose calls it awaits, the calls still pending, the backend's
\* answers, and its response
Free ==
  [state |-> "Free", arguments |-> <<>>, operations |-> <<>>, lo |-> 0,
   hi |-> 0, pending |-> {}, outs |-> <<>>, reply |-> NoAnswer,
   events |-> <<>>, calls |-> <<>>, response |-> NoResponse, responses |-> 0]
NoneInFlight == [r \in Slots |-> Free]

\* const results = []; const errors = []
EmptyArrays == [results |-> <<>>, errors |-> <<>>]
NoLocals == [r \in Slots |-> EmptyArrays]

\* the process after its modules are loaded: the environment is read once,
\* and importing supabase.ts has built the standard handle
InitWith(flagTexts) ==
  /\ envVars \in EnvFiles(flagTexts)
  /\ envVars["SUPABASE_API_KEY"] = Str(<<"k">>)
  /\ envVars["SUPABASE_SERVICE_KEY"] \in {Undefined, Str(<<"k">>)}
  /\ \A k \in FlagNames : envVars[k] \in flagTexts
  /\ env = loadEnvVars(envVars)
  /\ supabaseClient = getSupabaseClient(env, Null).cache
  /\ supabaseServiceClient = Null
  /\ request = NoRequest
  /\ response = NoResponse
  /\ calls = <<>>
  /\ raised = NotRaised
  /\ created = [std |-> getSupabaseClient(env, Null).built, svc |-> 0]
  /\ result = NoResult
  /\ inflight = NoneInFlight
  /\ locals = NoLocals
  /\ logged = NothingLogged

Init == InitWith({Undefined, Str(T_true)})

Idle == request.name = "none"

\* a request is handled to its response
Respond(name, args, h) ==
  /\ request' = [name |-> name, arguments |-> args]
  /\ response' = h.response
  /\ calls' = h.calls
  /\ supabaseClient' = h.cache.std
  /\ supabaseServiceClient' = h.cache.svc
  /\ raised' = NotRaised
  /\ created' = h.cache.built
  /\ UNCHANGED <<envVars, env, aside>>

\* the answers the backend can give to a handler: there is one to choose
\* only if the handler, run with h as its result for an answering backend,
\* issues a backend call
OutcomesFor(h) == IF h.calls = <<>> THEN {"ok"} ELSE Outcomes

CallQuery(inputs) ==
  /\ Idle
  /\ \E args \in inputs :
     \E out \in OutcomesFor(queryTool(args, env, Cache, "ok")) :
       Respond("query", args, queryTool(args, env, Cache, out))

\* the answers to a call of sqlwrite: those of any call, and the procedure
\* returning after its EXECUTE raised
SqlwriteOutcomesFor(args, h) ==
  OutcomesFor(h) \cup
    (IF h.calls # <<>> /\ sqlwriteAllows(args.sql) THEN {"raises"} ELSE {})

CallCreateTable(inputs) ==
  /\ Idle
  /\ \E args \in inputs :
     \E out \in SqlwriteOutcomesFor(args,
                                    createTableTool(args, env, Cache, "ok")) :
       Respond("createTable", args, createTableTool(args, env, Cache, out))

CallInsertRecord(inputs) ==
  /\ Idle
  /\ \E args \in inputs :
     \E out \in OutcomesFor(insertRecordTool(args, env, Cache, "ok")) :
       Respond("insertRecord", args, insertRecordTool(args, env, Cache, out))

CallUpdateRecord(inputs) ==
  /\ Idle
  /\ \E args \in inputs :
     \E out \in OutcomesFor(updateRecordTool(args, env, Cache, "ok")) :
       Respond("updateRecord", args, updateRecordTool(args, env, Cache, out))

CallDeleteRecord(inputs) ==
  /\ Idle
  /\ \E args \in inputs :
     \E out \in OutcomesFor(deleteRecordTool(args, env, Cache, "ok")) :
       Respond("deleteRecord", args, deleteRecordTool(args, env, Cache, out))

\* the answers of the backend to a batch: none to choose when the batch is
\* rejected before dispatch, the remote transaction's in transactional mode,
\* one per sequential call otherwise
AllOk(n) == [i \in 1..n |-> "ok"]
ArrayOk(n) == Answer("array", [i \in 1..n |-> "data"])
BatchAnswers(args) ==
  LET n == Len(args.operations)
      v == validateFrom(args.operations, 1, <<>>, <<>>)
  IN IF n = 0 \/ v.threw \/ v.validationErrors # <<>>
     THEN {[reply |-> ArrayOk(n), outs |-> AllOk(n)]}
     ELSE IF useTransactionOr(args.useTransaction)
     THEN {[reply |-> r, outs |-> AllOk(n)] :
             r \in TxReplies(n) \cup ProcedureReplies(v.sanitizedOperations)}
     ELSE {[reply |-> ArrayOk(n), outs |-> o] : o \in [1..n -> Outcomes]}

CallBatchOperations(inputs) ==
  /\ Idle
  /\ \E args \in inputs :
     \E a \in BatchAnswers(args) :
       Respond("batchOperations", args,
               batchOperationsTool(args, env, Cache, a.reply, a.outs))

\* a tool name that no branch of handleCallTool matches: line 768 throws
UnknownTools == {"dropTable"}
CallUnknownTool(inputs) ==
  /\ Idle
  /\ \E name \in inputs :
       /\ request' = [name |-> name, arguments |-> [sql |-> <<>>]]
       /\ raised' = "Unknown tool"
       /\ response' = NoResponse
       /\ calls' = <<>>
       /\ UNCHANGED <<envVars, env, supabaseClient, supabaseServiceClient,
                      created, aside>>

ListResources ==
  /\ Idle
  /\ \E out \in OutcomesFor(handleListResources(env, Cache, "ok", <<>>)) :
     \E listing \in IF out = "ok" THEN Listings ELSE {<<>>} :
       Respond("resources/list", [listing |-> listing],
               handleListResources(env, Cache, out, listing))

ReadResource(inputs) ==
  /\ Idle
  /\ \E uri \in inputs :
     \E out \in OutcomesFor(handleReadResource(uri, env, Cache, "ok")) :
       Respond("resources/read", [uri |-> uri],
               handleReadResource(uri, env, Cache, out))

\* the response is sent and the server waits for the next request
Deliver ==
  /\ ~Idle
  /\ request' = NoRequest
  /\ response' = NoResponse
  /\ calls' = <<>>
  /\ raised' = NotRaised
  /\ UNCHANGED <<envVars, env, supabaseClient, supabaseServiceClient,
                 created, aside>>

Next ==
  \/ CallQuery([sql : SqlTexts])
  \/ CallCreateTable([sql : SqlTexts])
  \/ CallInsertRecord([table : TableArgs, values : ObjArgs])
  \/ CallUpdateRecord([table : TableArgs, values : ObjArgs, filter : ObjArgs])
  \/ CallDeleteRecord([table : TableArgs, filter : ObjArgs])
  \/ CallBatchOperations(BatchArgs)
  \/ CallUnknownTool(UnknownTools)
  \/ ListResources
  \/ ReadResource(Uris)
  \/ Deliver

Spec == Init /\ [][Next]_vars

\* The processes of every configuration text, probed with one well-formed
\* call of each tool whose credential a policy flag decides
ProbeTable == Str(<<"t">>)
InitEnv == InitWith(FlagTexts)
NextEnv ==
  \/ CallCreateTable({[sql |-> T_CREATE_TABLE \o <<" ", "t">>]})
  \/ CallUpdateRecord({[table |-> ProbeTable, values |-> Obj({"id"}),
                        filter |-> Obj({"id"})]})
  \/ CallDeleteRecord({[table |-> ProbeTable, filter |-> Obj({"id"})]})
  \/ Deliver
SpecEnv == InitEnv /\ [][NextEnv]_vars

---------------------------------------------------------------------------
(* The client getters and the operation executors, called directly         *)

\* the process while supabase.ts is being loaded: no handle is built yet, and
\* either key may be missing from the .env file
InitExec ==
  /\ envVars \in EnvFiles({Undefined, Str(T_true)})
  /\ envVars["SUPABASE_API_KEY"] \in {Undefined, Str(<<"k">>)}
  /\ envVars["SUPABASE_SERVICE_KEY"] \in {Undefined, Str(<<"k">>)}
  /\ \A k \in FlagNames : envVars[k] \in {Undefined, Str(T_true)}
  /\ env = loadEnvVars(envVars)
  /\ supabaseClient = Null
  /\ supabaseServiceClient = Null
  /\ created = [std |-> 0, svc |-> 0]
  /\ request = NoRequest
  /\ response = NoResponse
  /\ calls = <<>>
  /\ raised = NotRaised
  /\ result = NoResult
  /\ inflight = NoneInFlight
  /\ locals = NoLocals
  /\ logged = NothingLogged

\* a function of supabase.ts was called and came to r, with the cached
\* handles c afterwards
Ran(name, args, r, c) ==
  /\ result' = [name |-> name, arguments |-> args, out |-> r]
  /\ supabaseClient' = c.std
  /\ supabaseServiceClient' = c.svc
  /\ created' = c.built
  /\ UNCHANGED <<envVars, env, raised, request, response, calls, inflight,
                 locals, logged>>

\* export const supabase = getSupabaseClient(), the last line of the module;
\* a throw here ends the process
ImportSupabase ==
  /\ result = NoResult
  /\ LET sel == selectClient(env, Cache, FALSE)
     IN Ran("import", <<>>, [threw |-> sel.threw, message |-> sel.message,
                             calls |-> <<>>],
            sel.cache)

\* the module is loaded
Loaded == result # NoResult /\ ~(result.name = "import" /\ result.out.threw)

\* a later call of one of the exported getters
CallGetSupabaseClient ==
  /\ Loaded
  /\ LET sel == selectClient(env, Cache, FALSE)
     IN Ran("getSupabaseClient", <<>>,
            [threw |-> sel.threw, message |-> sel.message, calls |-> <<>>],
            sel.cache)

CallGetSupabaseServiceClient ==
  /\ Loaded
  /\ LET sel == selectClient(env, Cache, TRUE)
     IN Ran("getSupabaseServiceClient", <<>>,
            [threw |-> sel.threw, message |-> sel.message, calls |-> <<>>],
            sel.cache)

RunExecuteSqlQuery(inputs) ==
  /\ Loaded
  /\ \E sql \in inputs : \E out \in Outcomes :
       LET r == executeSqlQuery(sql, env, Cache, out)
       IN Ran("executeSqlQuery", <<sql>>, r, r.cache)

RunExecuteWriteSqlQuery(inputs) ==
  /\ Loaded
  /\ \E sql \in inputs : \E out \in Outcomes :
       LET r == executeWriteSqlQuery(sql, env, Cache, out)
       IN Ran("executeWriteSqlQuery", <<sql>>, r, r.cache)

RunExecuteInsert(inputs) ==
  /\ Loaded
  /\ \E a \in inputs : \E out \in Outcomes :
       LET r == executeInsert(a.table, a.values, env, Cache, out)
       IN Ran("executeInsert", a, r, r.cache)

RunExecuteUpdate(inputs) ==
  /\ Loaded
  /\ \E a \in inputs : \E out \in Outcomes :
       LET r == executeUpdate(a.table, a.values, a.filter, env, Cache, out)
       IN Ran("executeUpdate", a, r, r.cache)

RunExecuteDelete(inputs) ==
  /\ Loaded
  /\ \E a \in inputs : \E out \in Outcomes :
       LET r == executeDelete(a.table, a.filter, env, Cache, out)
       IN Ran("executeDelete", a, r, r.cache)

\* the replies of the remote transaction to a direct call: it throws, it
\* answers with an error, or with one entry for each of the n operations
ExecReplies(n) ==
  {Answer("throw", <<>>), Answer("error", <<>>),
   Answer("array", [i \in 1..n |-> "data"])}

RunExecuteTransaction(inputs) ==
  /\ Loaded
  /\ \E ops \in inputs : \E reply \in ExecReplies(Len(ops)) :
       LET r == executeTransaction(ops, env, Cache, reply)
       IN Ran("executeTransaction", ops, r, r.cache)

\* the arguments the executors are called with
ExecSql == {T_CREATE_TABLE \o <<" ", "t">>, T_ALTER \o <<" ", "t">>, <<"t">>}
ExecFilters == {Obj({}), Obj({"id"})}
ExecOps ==
  {[type |-> ty, table |-> <<"t">>, values |-> Obj({"id"}),
    filter |-> Obj({"id"}), returning |-> <<"*">>] :
     ty \in {T_insert, T_update, T_delete}}

\* batches of one operation, and of one of each type
ExecBatches ==
  {<<op>> : op \in ExecOps} \cup
    {[i \in 1..3 |-> [type |-> <<T_insert, T_update, T_delete>>[i],
                       table |-> <<"t">>, values |-> Obj({"id"}),
                       filter |-> Obj({"id"}), returning |-> <<"*">>]]}

NextExec ==
  \/ ImportSupabase
  \/ CallGetSupabaseClient
  \/ CallGetSupabaseServiceClient
  \/ RunExecuteSqlQuery(ExecSql)
  \/ RunExecuteWriteSqlQuery(ExecSql)
  \/ RunExecuteInsert([table : {<<"t">>}, values : {Obj({"id"})}])
  \/ RunExecuteUpdate([table : {<<"t">>}, values : {Obj({"id"})},
                       filter : {Obj({"id"})}])
  \/ RunExecuteDelete([table : {<<"t">>}, filter : ExecFilters])
  \/ RunExecuteTransaction(ExecBatches)

SpecExec == InitExec /\ [][NextExec]_vars

---------------------------------------------------------------------------
(* The logger, called with structured contexts                             *)

\* deepest nesting of the objects in a logged context
ContextDepth == 2

\* the contexts logged: objects nested to ContextDepth, whose fields are a
\* password, a nested object db, or at some depth a DB_PASSWORD; a password
\* that is the empty text; and no context at all
Secret == Str(<<"p", "w">>)
RECURSIVE JsonValues(_)
JsonValues(d) ==
  IF d = 0 THEN {Secret}
  ELSE JsonValues(0) \cup
       {JsonObj(f) : f \in UNION {[K -> JsonValues(d - 1)] :
                                    K \in SUBSET {"password", "db"}}}
Contexts ==
  {v \in JsonValues(ContextDepth) : v.t = "object"}
    \cup {JsonObj([k \in {"password"} |-> Str(<<>>)]),
          JsonObj([k \in {"DB_PASSWORD"} |-> Secret]),
          JsonObj([k \in {"db"} |-> JsonObj([j \in {"DB_PASSWORD"} |-> Secret])]),
          NoData}

InitLog ==
  /\ envVars \in EnvFiles({Undefined})
  /\ envVars["SUPABASE_API_KEY"] = Str(<<"k">>)
  /\ envVars["SUPABASE_SERVICE_KEY"] = Undefined
  /\ \A k \in FlagNames : envVars[k] = Undefined
  /\ env = loadEnvVars(envVars)
  /\ supabaseClient = Null
  /\ supabaseServiceClient = Null
  /\ created = [std |-> 0, svc |-> 0]
  /\ request = NoRequest
  /\ response = NoResponse
  /\ calls = <<>>
  /\ raised = NotRaised
  /\ result = NoResult
  /\ inflight = NoneInFlight
  /\ locals = NoLocals
  /\ logged = NothingLogged

LoggerFrame ==
  UNCHANGED <<envVars, env, supabaseClient, supabaseServiceClient, raised,
              request, response, calls, created, result, inflight, locals>>

\* configure({ level })
Configure(levels) ==
  /\ \E level \in levels : logged' = [logged EXCEPT !.currentLogLevel = level]
  /\ LoggerFrame

\* debug, info, warn, error (message, data): format and write, if the level
\* is to be shown
Log(level, inputs) ==
  /\ \E data \in inputs :
       LET f == formatMessage(level, "message", data)
           shown == shouldLog(logged.currentLogLevel, level)
       IN logged' = [currentLogLevel |-> logged.currentLogLevel,
                     level |-> level, data |-> data, emitted |-> shown,
                     text |-> IF shown THEN f.text ELSE NoText,
                     after |-> IF shown THEN f.data ELSE data]
  /\ LoggerFrame

debug(inputs) == Log("DEBUG", inputs)
info(inputs) == Log("INFO", inputs)
warn(inputs) == Log("WARN", inputs)
error(inputs) == Log("ERROR", inputs)

NextLog ==
  \/ Configure(Range(LogLevels))
  \/ debug(Contexts)
  \/ info(Contexts)
  \/ warn(Contexts)
  \/ error(Contexts)

SpecLog == InitLog /\ [][NextLog]_vars

---------------------------------------------------------------------------
(* batchOperations requests in flight together: a handler runs to its next *)
(* await, and the handlers take turns there                                *)

\* a variant of arraysOf in which all handlers fill one pair of arrays
arraysOf_shared(r) == 1

\* const results = []; const errors = [] are locals of the handler: the
\* arrays the handler of request r fills are its own
arraysOf(r) == r

\* a variant of blockFrom in which the loop starts the calls of all the
\* operations left before it awaits one
blockFrom_withoutAwait(i, n) == n

\* the last of the operations, from operation i on, whose executor the
\* sequential loop calls before it awaits: the await is in the loop's body
blockFrom(i, n) == i

\* a variant of afterTransaction in which an exception of
\* executeTransaction is not caught
afterTransaction_uncaught(r) ==
  IF r.threw
  THEN [state |-> "TransactionPending", response |-> NoResponse,
        responses |-> 0]
  ELSE [state |-> IF r.success THEN "Committed" ELSE "Failed",
        response |-> transactionReply(r), responses |-> 1]

\* the handler after await executeTransaction(...): the reply of lines
\* 653-667, or that of the catch block of lines 754-765
afterTransaction(r) ==
  IF r.threw
  THEN [state |-> "Failed", response |-> ErrorReply(r.message),
        responses |-> 1]
  ELSE [state |-> IF r.success THEN "Committed" ELSE "Failed",
        response |-> transactionReply(r), responses |-> 1]

\* the executor of the operation issues a backend call: it does, unless
\* obtaining its client throws
issues(op) == executeOperation(op, env, Cache, "ok").calls # <<>>

\* lo, lo + 1, ..., hi
Upto(lo, hi) == [k \in 1..(hi - lo + 1) |-> lo + k - 1]

\* the calls as they are issued: not answered yet
issued(cs) == [k \in 1..Len(cs) |-> Answered(cs[k], NoAnswer)]

enteredWith(run, started) ==
  [pending |-> Range(started),
   events |-> [k \in 1..Len(started) |-> Event("issue", started[k])],
   calls |-> issued(run.calls),
   cache |-> run.cache]

\* the loop calls the executors of operations lo..hi, each of which runs to
\* its await: the calls issued, and the cached handles afterwards
entered(operations, lo, hi) ==
  CHOOSE en \in
    {enteredWith(run, started) :
       run \in {runSequential(SubSeq(operations, 1, hi), lo, AllOk(hi), env,
                              Cache,
                              [results |-> <<>>, errors |-> <<>>,
                               calls |-> <<>>, cache |-> Cache])},
       started \in {SelectSeq(Upto(lo, hi),
                              LAMBDA j : issues(operations[j]))}} : TRUE

arraysFrom(acc) == [results |-> acc.results, errors |-> acc.errors]

\* results.push(...) and errors.push(...) for operations lo..hi of the
\* handler of request r, whose calls the backend has answered
filed(r, slot) ==
  arraysFrom(runSequential(SubSeq(slot.operations, 1, slot.hi), slot.lo,
                           slot.outs, env, Cache,
                           [results |-> locals[arraysOf(r)].results,
                            errors |-> locals[arraysOf(r)].errors,
                            calls |-> <<>>, cache |-> Cache]))

\* the loop is over: the handler replies
finished(slot, arrays) ==
  [slot |-> [slot EXCEPT !.state = "Completed",
                         !.response = sequentialReply(arrays),
                         !.responses = @ + 1],
   arrays |-> arrays, cache |-> Cache]

\* the loop's next turn
continued(slot, arrays, hi, en) ==
  [slot |-> [slot EXCEPT !.lo = slot.hi + 1, !.hi = hi,
                         !.pending = en.pending,
                         !.events = @ \o en.events,
                         !.calls = @ \o en.calls],
   arrays |-> arrays, cache |-> en.cache]

SetCache(c) ==
  /\ supabaseClient' = c.std
  /\ supabaseServiceClient' = c.svc
  /\ created' = c.built

InFlightFrame ==
  UNCHANGED <<envVars, env, raised, request, response, calls, result, logged>>

\* validation found a fault: the handler returns before any await
Reject(r, base, reply) ==
  /\ inflight' = [inflight EXCEPT ![r] =
                    [base EXCEPT !.state = "Rejected", !.response = reply,
                                 !.responses = 1]]
  /\ UNCHANGED <<supabaseClient, supabaseServiceClient, created, locals>>

\* the handler runs to await executeTransaction(sanitizedOperations), and
\* executeTransaction to its await of the remote call (r0: as it would end
\* if the backend answered)
EnterTransaction(r, base, ops, r0) ==
  /\ inflight' =
       [inflight EXCEPT ![r] =
          [base EXCEPT !.state = "TransactionPending",
                       !.operations = ops,
                       !.pending = IF r0.calls = <<>> THEN {} ELSE {0},
                       !.events = IF r0.calls = <<>> THEN <<>>
                                  ELSE <<Event("issue", 0)>>,
                       !.calls = issued(r0.calls)]]
  /\ SetCache(r0.cache)
  /\ UNCHANGED locals

\* the handler creates its arrays and runs to the first await of its loop
EnterSequential(r, base, ops, hi, en) ==
  /\ inflight' =
       [inflight EXCEPT ![r] =
          [base EXCEPT !.state = "SequentialRunning",
                       !.operations = ops,
                       !.lo = 1, !.hi = hi,
                       !.outs = AllOk(Len(ops)),
                       !.pending = en.pending,
                       !.events = en.events,
                       !.calls = en.calls]]
  /\ SetCache(en.cache)
  /\ locals' = [locals EXCEPT ![arraysOf(r)] = EmptyArrays]

Validated(r, args, base, v) ==
  IF args.operations = <<>> \/ v.threw \/ v.validationErrors # <<>>
  THEN Reject(r, base, rejectionReply(args.operations, v))
  ELSE IF useTransactionOr(args.useTransaction)
  THEN \E r0 \in {executeTransaction(v.sanitizedOperations, env, Cache,
                                      ArrayOk(Len(v.sanitizedOperations)))} :
         EnterTransaction(r, base, v.sanitizedOperations, r0)
  ELSE \E en \in {entered(v.sanitizedOperations, 1,
                          blockFrom(1, Len(v.sanitizedOperations)))} :
         EnterSequential(r, base, v.sanitizedOperations,
                         blockFrom(1, Len(v.sanitizedOperations)), en)

\* a batchOperations request arrives: its handler validates, and returns or
\* runs to its first await
Receive(r, inputs) ==
  /\ inflight[r].state = "Free"
  /\ \E args \in inputs :
     \E v \in {validateFrom(args.operations, 1, <<>>, <<>>)} :
       Validated(r, args, [Free EXCEPT !.arguments = args], v)
  /\ InFlightFrame

AdvanceTo(r, ad) ==
  /\ inflight' = [inflight EXCEPT ![r] = ad.slot]
  /\ locals' = [locals EXCEPT ![arraysOf(r)] = ad.arrays]
  /\ SetCache(ad.cache)

\* the loop goes on after the awaited calls of operations lo..hi: it files
\* their results in its arrays, then enters the next operations or replies
Advance(r, slot) ==
  \E arrays \in {filed(r, slot)} :
    IF slot.hi = Len(slot.operations)
    THEN \E ad \in {finished(slot, arrays)} : AdvanceTo(r, ad)
    ELSE \E en \in {entered(slot.operations, slot.hi + 1,
                            blockFrom(slot.hi + 1, Len(slot.operations)))} :
         \E ad \in {continued(slot, arrays,
                              blockFrom(slot.hi + 1, Len(slot.operations)),
                              en)} :
           AdvanceTo(r, ad)

\* the call of operation j is answered with out
answered(slot, j, out) ==
  [slot EXCEPT !.pending = @ \ {j}, !.outs[j] = out,
               !.events = Append(@, Event("complete", j))]

Answer1(r, slot) ==
  IF slot.pending # {}
  THEN /\ inflight' = [inflight EXCEPT ![r] = slot]
       /\ UNCHANGED <<supabaseClient, supabaseServiceClient, created, locals>>
  ELSE Advance(r, slot)

\* the backend answers a pending call of the sequential loop; the handler
\* goes on when none of the calls it awaits is pending
Complete(r) ==
  /\ inflight[r].state = "SequentialRunning"
  /\ \E j \in inflight[r].pending : \E out \in Outcomes :
     \E slot \in {answered(inflight[r], j, out)} : Answer1(r, slot)
  /\ InFlightFrame

\* the handler goes on after awaiting an executor that issued no call
Resume(r) ==
  /\ inflight[r].state = "SequentialRunning"
  /\ inflight[r].pending = {}
  /\ Advance(r, inflight[r])
  /\ InFlightFrame

\* the replies of the remote transaction to a batch of n operations
InFlightReplies(n) ==
  {Answer(k, <<>>) : k \in {"throw", "error", "null"}} \cup {ArrayOk(n)}

Settle(r, after, reply, events) ==
  inflight' =
    [inflight EXCEPT ![r] =
       [@ EXCEPT !.state = after.state, !.response = after.response,
                 !.responses = @ + after.responses, !.pending = {},
                 !.reply = reply, !.events = @ \o events]]

\* the backend answers the call of execute_transaction
CompleteTransaction(r) ==
  /\ inflight[r].state = "TransactionPending"
  /\ inflight[r].pending # {}
  /\ \E reply \in InFlightReplies(Len(inflight[r].operations)) :
     \E after \in {afterTransaction(
                      executeTransaction(inflight[r].operations, env, Cache,
                                         reply))} :
       Settle(r, after, reply, <<Event("complete", 0)>>)
  /\ UNCHANGED <<supabaseClient, supabaseServiceClient, created, locals>>
  /\ InFlightFrame

\* the handler goes on after awaiting executeTransaction, which threw
\* before it issued its call
ResumeTransaction(r) ==
  /\ inflight[r].state = "TransactionPending"
  /\ inflight[r].pending = {}
  /\ \E after \in {afterTransaction(
                     executeTransaction(inflight[r].operations, env, Cache,
                                        ArrayOk(Len(inflight[r].operations))))} :
       Settle(r, after, NoAnswer, <<>>)
  /\ UNCHANGED <<supabaseClient, supabaseServiceClient, created, locals>>
  /\ InFlightFrame

TerminalStates == {"Rejected", "Committed", "Failed", "Completed"}

\* the response of a handler that returned is sent
Send(r) ==
  /\ inflight[r].state \in TerminalStates
  /\ inflight' = [inflight EXCEPT ![r] = Free]
  /\ locals' = [locals EXCEPT ![r] = EmptyArrays]
  /\ UNCHANGED <<supabaseClient, supabaseServiceClient, created>>
  /\ InFlightFrame

\* the operations sent: an insert (Standard tier), a delete (Privileged
\* tier), an insert without values, an insert whose table is not a text
InsertOne == Op(Str(T_insert), GoodTable, Obj({"id"}), NoObj)
DeleteOne == Op(Str(T_delete), GoodTable, NoObj, Obj({"id"}))
InsertNothing == Op(Str(T_insert), GoodTable, NoObj, NoObj)
InsertNowhere == Op(Str(T_insert), Number, Obj({"id"}), NoObj)
InFlightOps == {InsertOne, DeleteOne, InsertNothing, InsertNowhere}
InFlightBatches ==
  [operations : SeqsOf(InFlightOps, 0, MaxOps),
   useTransaction : {"absent", "false"}]

InitInFlight == InitWith({Undefined})

NextInFlight ==
  \E r \in Slots :
    \/ Receive(r, InFlightBatches)
    \/ Complete(r)
    \/ Resume(r)
    \/ CompleteTransaction(r)
    \/ ResumeTransaction(r)
    \/ Send(r)

SpecInFlight == InitInFlight /\ [][NextInFlight]_vars

\* one batch for each way through the life cycle: a transaction, a
\* sequential batch of two operations, a batch that validation rejects
LiveBatches ==
  {[operations |-> <<DeleteOne>>, useTransaction |-> "absent"],
   [operations |-> <<InsertOne, DeleteOne>>, useTransaction |-> "false"],
   [operations |-> <<InsertNothing>>, useTransaction |-> "absent"]}

NextInFlightLive ==
  \E r \in Slots :
    \/ Receive(r, LiveBatches)
    \/ Complete(r)
    \/ Resume(r)
    \/ CompleteTransaction(r)
    \/ ResumeTransaction(r)
    \/ Send(r)

\* the handler of request r takes its next step: the backend answers a call
\* it awaits, or the await of an executor that issued none ends
Progress(r) ==
  Complete(r) \/ Resume(r) \/ CompleteTransaction(r) \/ ResumeTransaction(r)

\* every backend call issued completes, and the event loop runs every
\* handler that can go on
SpecInFlightLive ==
  /\ InitInFlight
  /\ [][NextInFlightLive]_vars
  /\ \A r \in Slots : WF_vars(Progress(r))

---------------------------------------------------------------------------
(* Vocabulary of the properties                                            *)

Standard == "SUPABASE_API_KEY"
Privileged == "SUPABASE_SERVICE_KEY"
TierOf(usePrivileged) == IF usePrivileged THEN Privileged ELSE Standard

\* the policy, as the selector sees the loaded environment
allowCreateWithStandard == Truthy(env["ALLOW_CREATE_OPERATIONS"])
allowUpdateWithStandard == Truthy(env["ALLOW_UPDATE_OPERATIONS"])
allowDeleteWithStandard == Truthy(env["ALLOW_DELETE_OPERATIONS"])

Handling(name) == request.name = name
NoBackendCall == calls = <<>>
CallIndices == 1..Len(calls)

\* a filter that is missing or an empty mapping
FilterAbsent(o) == o.t = "undefined" \/ (o.t = "object" /\ o.keys = {})
\* values or a filter that are a non-empty object
Present(o) == o.t \in {"object", "array"} /\ o.keys # {}

\* an identifier: non-empty, every character in [A-Za-z0-9_]
ValidName(v) ==
  /\ v.t = "string"
  /\ v.s # <<>>
  /\ \A i \in 1..Len(v.s) :
       v.s[i] \in Range(LowerChars) \cup Range(UpperChars)
                    \cup Range(DigitChars) \cup {"_"}

\* the kind of a batch operation, whatever the letter case of its type
KindOf(op) == IF op.type.t = "string" THEN ToLowerCase(op.type.s) ELSE <<>>

\* a batch operation that meets what validation asks of it
WellFormed(op) ==
  /\ ValidName(op.table)
  /\ \/ KindOf(op) = T_insert /\ Present(op.values)
     \/ KindOf(op) = T_update /\ Present(op.values) /\ Present(op.filter)
     \/ KindOf(op) = T_delete /\ Present(op.filter)

BatchOperations == request.arguments.operations
\* the 0-based indices of the operations of the batch that are not well-formed
InvalidIndices ==
  {i - 1 : i \in {j \in 1..Len(BatchOperations) :
                    ~WellFormed(BatchOperations[j])}}

---------------------------------------------------------------------------
(* C1 *)

\* C1: a deleteRecord or updateRecord call, or a batch holding a delete or
\* update operation, whose filter is missing or an empty mapping is answered
\* with an error and issues no backend call at all.
C1_EmptyFilterNeverReachesBackend ==
  /\ (Handling("updateRecord") \/ Handling("deleteRecord"))
       /\ FilterAbsent(request.arguments.filter)
     => response.isError /\ NoBackendCall
  /\ Handling("batchOperations")
       /\ (\E i \in 1..Len(BatchOperations) :
             /\ KindOf(BatchOperations[i]) \in {T_update, T_delete}
             /\ FilterAbsent(BatchOperations[i].filter))
     => response.isError /\ NoBackendCall

\* a sequential batch of a well-formed insert and a delete with an empty
\* filter has been answered
C1_Witness ==
  /\ Handling("batchOperations")
  /\ request.arguments.useTransaction = "false"
  /\ Len(BatchOperations) = 2
  /\ WellFormed(BatchOperations[1])
  /\ KindOf(BatchOperations[2]) = T_delete
  /\ ValidName(BatchOperations[2].table)
  /\ BatchOperations[2].filter = Obj({})
  /\ response.isError

---------------------------------------------------------------------------
(* C2 *)

\* C2: a batch with an operation that fails validation is answered with
\* success false and isError true, and issues no backend call, in either mode.
C2_InvalidBatchRejectedWithSuccessFalse ==
  Handling("batchOperations") /\ InvalidIndices # {}
    => /\ response.payload.success = "false"
       /\ response.isError
       /\ NoBackendCall

---------------------------------------------------------------------------
(* C3 *)

\* the indices the error list of the response carries, in its order
ErrorIndices ==
  [i \in 1..Len(response.payload.errors) |-> response.payload.errors[i].index]

\* C3: batch validation is exhaustive and index-preserving: the error list
\* has exactly one entry per invalid operation, with its input index, in
\* increasing order, whatever the defect of an operation, a type or table
\* that is not text included.
C3_ValidationExhaustive ==
  Handling("batchOperations") /\ InvalidIndices # {}
    => /\ Range(ErrorIndices) = InvalidIndices
       /\ Len(ErrorIndices) = Cardinality(InvalidIndices)
       /\ \A i, j \in 1..Len(ErrorIndices) :
            i < j => ErrorIndices[i] < ErrorIndices[j]

---------------------------------------------------------------------------
(* C4 *)

\* C4: an insert is dispatched with the Privileged credential iff
\* allowCreateWithStandard is false, an update iff allowUpdateWithStandard is
\* false, a delete iff allowDeleteWithStandard is false, a query never.
C4_TierPerOperationKind ==
  \A i \in CallIndices :
    /\ Handling("insertRecord")
         => calls[i].client = TierOf(~allowCreateWithStandard)
    /\ Handling("updateRecord")
         => calls[i].client = TierOf(~allowUpdateWithStandard)
    /\ Handling("deleteRecord")
         => calls[i].client = TierOf(~allowDeleteWithStandard)
    /\ Handling("query") => calls[i].client = Standard

---------------------------------------------------------------------------
(* C5 *)

\* the boolean a flag's configured text stands for
ConfiguredTrue(text) ==
  text.t = "string" /\ ToLowerCase(text.s) \in {T_true, T_one, T_yes}

\* the tools whose credential each flag decides
FlagOfTool ==
  [createTable |-> "ALLOW_CREATE_OPERATIONS",
   updateRecord |-> "ALLOW_UPDATE_OPERATIONS",
   deleteRecord |-> "ALLOW_DELETE_OPERATIONS"]

\* C5: the value the selector reads for a flag is true exactly when the
\* configured text is 'true', '1' or 'yes' in any letter case, and false
\* otherwise; so the operation of a flag configured 'false' goes out with
\* the Privileged credential and that of a flag configured 'true' with the
\* Standard one.
C5_FlagTextDecidesCredential ==
  \A tool \in DOMAIN FlagOfTool :
    Handling(tool) =>
      LET flag == FlagOfTool[tool] IN
      /\ Truthy(env[flag]) <=> ConfiguredTrue(envVars[flag])
      /\ \A i \in CallIndices :
           calls[i].client = TierOf(~ConfiguredTrue(envVars[flag]))

---------------------------------------------------------------------------
(* C6 *)

ReadPaths == {"query", "resources/list", "resources/read"}

\* C6: handling a query, a resource listing or a resource read makes every
\* backend call with the Standard handle and neither builds nor replaces the
\* Privileged handle, for every policy and SQL text.
C6_ReadPathsNeverPrivileged ==
  [][request'.name \in ReadPaths
       => /\ \A i \in 1..Len(calls') : calls'[i].client = Standard
          /\ supabaseServiceClient' = supabaseServiceClient]_vars

\* a query whose text starts with CREATE went to the backend while creating
\* with the Standard credential is not allowed and a service key is configured
C6_Witness ==
  /\ Handling("query")
  /\ StartsWith(ToUpperCase(request.arguments.sql), T_CREATE)
  /\ ~allowCreateWithStandard
  /\ Truthy(env["SUPABASE_SERVICE_KEY"])
  /\ calls # <<>>
  /\ calls[1].client = Standard

---------------------------------------------------------------------------
(* C7 *)

\* C7: a createTable call that passes validation is dispatched with the
\* Privileged credential when allowCreateWithStandard is false and with the
\* Standard credential when it is true, whatever token its text starts with.
C7_CreateTableTierFromCreateFlag ==
  Handling("createTable")
    => \A i \in CallIndices :
         calls[i].client = TierOf(~allowCreateWithStandard)

---------------------------------------------------------------------------
(* C8 *)

\* the kind a structured call carries, as the text of an operation type
VerbText == [insert |-> T_insert, update |-> T_update, delete |-> T_delete]

\* the tier the executor of a single operation of this kind selects: it hands
\* the selector the kind in upper case
OwnTier(kind) == TierOf(shouldUseServiceKey(env, ToUpperCase(kind)))

\* some operation of the batch would, made on its own, go out Privileged
SomeOperationPrivileged ==
  \E j \in 1..Len(BatchOperations) :
    OwnTier(KindOf(BatchOperations[j])) = Privileged

\* C8, as amended: in transactional mode the tier is computed once for the
\* whole batch, and its single execute_transaction call goes out Privileged
\* iff some operation of the batch would on its own; in non-transactional
\* mode every call goes out with the tier of its own operation.
C8_BatchTierPerMode ==
  Handling("batchOperations") /\ calls # <<>>
    => IF request.arguments.useTransaction # "false"
       THEN /\ Len(calls) = 1
            /\ calls[1].fn = "execute_transaction"
            /\ calls[1].client = TierOf(SomeOperationPrivileged)
       ELSE \A i \in CallIndices :
              calls[i].client = OwnTier(VerbText[calls[i].fn])

\* C8, as stated: in both modes every backend call of a batch goes out
\* Privileged if some operation of the batch would individually require it,
\* and Standard otherwise.
C8_OneTierInBothModes ==
  Handling("batchOperations")
    => \A i \in CallIndices :
         calls[i].client = TierOf(SomeOperationPrivileged)

\* a transaction of an insert that may go out Standard and a delete that may
\* not has been sent, under the Privileged credential
C8_Witness ==
  /\ Handling("batchOperations")
  /\ request.arguments.useTransaction # "false"
  /\ Len(BatchOperations) = 2
  /\ KindOf(BatchOperations[1]) = T_insert
  /\ KindOf(BatchOperations[2]) = T_delete
  /\ OwnTier(T_insert) = Standard
  /\ OwnTier(T_delete) = Privileged
  /\ Len(calls) = 1
  /\ calls[1].client = Privileged

---------------------------------------------------------------------------
(* C9 *)

SingleTableTools == {"insertRecord", "updateRecord", "deleteRecord"}

\* the other arguments of a single-table tool are what the tool asks for
OtherArgumentsPresent ==
  CASE Handling("insertRecord") -> Present(request.arguments.values)
    [] Handling("updateRecord") ->
         Present(request.arguments.values) /\ Present(request.arguments.filter)
    [] Handling("deleteRecord") -> Present(request.arguments.filter)
    [] OTHER -> FALSE

\* C9: on insertRecord, updateRecord, deleteRecord and each operation of a
\* batch, a table name is accepted iff it is non-empty and every character
\* is in [A-Za-z0-9_]; an accepted name reaches the backend unchanged; any
\* other name is rejected with an error and no backend call is issued.
C9_TableNameAcceptedIffIdentifier ==
  /\ request.name \in SingleTableTools =>
       /\ ~ValidName(request.arguments.table)
            => response.isError /\ NoBackendCall
       /\ ValidName(request.arguments.table) /\ OtherArgumentsPresent
            => \/ /\ Len(calls) = 1
                  /\ calls[1].table = request.arguments.table.s
               \/ /\ NoBackendCall
                  /\ response.payload.message
                       = "Missing Supabase service key configuration"
       /\ \A i \in CallIndices : calls[i].table = request.arguments.table.s
  /\ Handling("batchOperations") =>
       /\ (\E j \in 1..Len(BatchOperations) :
             ~ValidName(BatchOperations[j].table))
            => response.isError /\ NoBackendCall
       /\ \A i \in CallIndices :
            IF calls[i].kind = "rpc"
            THEN /\ Len(calls[i].ops) = Len(BatchOperations)
                 /\ \A j \in 1..Len(BatchOperations) :
                      calls[i].ops[j].table = BatchOperations[j].table.s
            ELSE \E j \in 1..Len(BatchOperations) :
                   /\ KindOf(BatchOperations[j]) = VerbText[calls[i].fn]
                   /\ calls[i].table = BatchOperations[j].table.s

\* an updateRecord call on the table a_ has reached the backend under that name
C9_Witness ==
  /\ Handling("updateRecord")
  /\ request.arguments.table = Str(<<"a", "_">>)
  /\ Len(calls) = 1
  /\ calls[1].table = <<"a", "_">>

---------------------------------------------------------------------------
(* C10 *)

\* C10: on every path that takes a table name from the caller (insertRecord,
\* updateRecord, deleteRecord, batchOperations, the read of a table URI) no
\* backend call is issued with a table name other than the one supplied.
C10_NoStripAndContinue ==
  /\ request.name \in SingleTableTools
       => \A i \in CallIndices : calls[i].table = request.arguments.table.s
  /\ Handling("batchOperations")
       => \A i \in CallIndices :
            IF calls[i].kind = "rpc"
            THEN \A j \in 1..Len(calls[i].ops) :
                   calls[i].ops[j].table = BatchOperations[j].table.s
            ELSE \E j \in 1..Len(BatchOperations) :
                   calls[i].table = BatchOperations[j].table.s
  /\ Handling("resources/read")
       => \A i \in CallIndices : calls[i].table = request.arguments.uri.table

---------------------------------------------------------------------------
(* C11 *)

ToolCall == request.name \notin {"none", "resources/list", "resources/read"}

\* the answer of the backend to the i-th call of the request
AnswerKind(i) == calls[i].answer.kind

\* the sqlwrite procedure ran and returned a payload with an error marker
ProcedureReportedFailure ==
  /\ Handling("createTable")
  /\ calls # <<>>
  /\ AnswerKind(1) \in {"ok", "raises"}
  /\ (AnswerKind(1) = "raises" \/ ~sqlwriteAllows(calls[1].sql))

\* the call handled did not succeed: it was stopped before the backend, or
\* the backend failed it
CallDidNotSucceed ==
  IF Handling("batchOperations")
  THEN \/ calls = <<>>
       \/ \E i \in CallIndices :
            IF calls[i].kind = "rpc"
            THEN \/ AnswerKind(i) # "array"
                 \/ Len(calls[i].answer.items) < Len(BatchOperations)
            ELSE AnswerKind(i) # "ok"
       \/ request.arguments.useTransaction = "false"
            /\ Len(calls) < Len(BatchOperations)
  ELSE \/ calls = <<>>
       \/ AnswerKind(1) \in {"error", "throw"}
       \/ ProcedureReportedFailure

\* C11: every tool call, whatever its name and arguments and whatever the
\* backend does, is answered with a response; no exception leaves
\* handleCallTool; and a call that did not succeed is answered with isError
\* true and a message.
C11_EveryToolCallAnswered ==
  ToolCall
    => /\ raised = NotRaised
       /\ CallDidNotSucceed
            => response.isError /\ response.payload.message # ""

---------------------------------------------------------------------------
(* C12 *)

\* the arguments of a single-table tool pass the handler's validation
ValidationPassed ==
  ValidName(request.arguments.table) /\ OtherArgumentsPresent

\* C12: for insertRecord, updateRecord and deleteRecord the response has
\* isError false iff validation passed and the backend call completed with
\* neither a thrown fault nor an error field; a fault and an error field
\* both give isError true with a message; a validation failure gives
\* isError true without a backend call.
C12_SingleCallOutcome ==
  request.name \in SingleTableTools =>
    /\ ~response.isError
         <=> ValidationPassed /\ Len(calls) = 1 /\ AnswerKind(1) = "ok"
    /\ \A i \in CallIndices :
         AnswerKind(i) \in {"error", "throw"}
           => response.isError /\ response.payload.message # ""
    /\ ~ValidationPassed => response.isError /\ NoBackendCall

\* a deleteRecord call that passed validation, and whose backend call
\* answered with an error field, has been answered with isError true
C12_Witness ==
  /\ Handling("deleteRecord")
  /\ ValidationPassed
  /\ Len(calls) = 1
  /\ AnswerKind(1) = "error"
  /\ response.isError
  /\ response.payload.message = "backend error"

---------------------------------------------------------------------------
(* C13 *)

\* C13: createTable answers isError false with 'Table created successfully'
\* only when the backend executed the statement; when the write procedure
\* reports a failure, as a call-level error or as an error marker inside the
\* payload it returns, the response has isError true.
C13_CreateTableReportsProcedureFailure ==
  Handling("createTable") =>
    /\ ~response.isError
         => /\ response.payload.message = "Table created successfully"
            /\ Len(calls) = 1
            /\ AnswerKind(1) = "ok"
            /\ sqlwriteAllows(calls[1].sql)
    /\ CallDidNotSucceed => response.isError

---------------------------------------------------------------------------
(* C14 *)

\* the batch that was handled went out as one remote transaction
TransactionSent ==
  /\ Handling("batchOperations")
  /\ calls # <<>>
  /\ calls[1].fn = "execute_transaction"

NotAvailableError ==
  "Transaction failed - execute_transaction RPC function not available"

\* C14: a transactional batch whose remote procedure is unavailable, absent
\* on the server or answering with something that is not an array, returns
\* success false with the error that names the missing execute_transaction
\* procedure, never the generic 'Transaction failed'; any other backend
\* failure returns a different error.
C14_UnavailableProcedureIsNamed ==
  TransactionSent =>
    /\ AnswerKind(1) \in {"missing", "null", "object"}
         => /\ response.payload.success = "false"
            /\ response.payload.error = NotAvailableError
    /\ AnswerKind(1) \in {"error", "throw"}
         => response.payload.error # NotAvailableError

---------------------------------------------------------------------------
(* C15 *)

\* operation j of the batch as it is passed on: its type in lower case
PassedOn(j) ==
  [type |-> KindOf(BatchOperations[j]), table |-> BatchOperations[j].table.s,
   values |-> BatchOperations[j].values, filter |-> BatchOperations[j].filter,
   returning |-> IF BatchOperations[j].returning.t = "undefined" THEN <<"*">>
                 ELSE BatchOperations[j].returning.s]

---------------------------------------------------------------------------
(* C16 *)

\* the batch that was handled passed validation and ran operation by operation
SequentialRun ==
  /\ Handling("batchOperations")
  /\ BatchOperations # <<>>
  /\ InvalidIndices = {}
  /\ request.arguments.useTransaction = "false"

MissingServiceKey == "Missing Supabase service key configuration"

\* C16: in a non-transactional batch of N validated operations every
\* operation is attempted whatever happened to the earlier ones, results has
\* N entries with entry i describing operation i, success is true iff every
\* entry succeeded, and errors lists exactly the indices of the failed ones.
C16_SequentialBatchIndependent ==
  SequentialRun =>
    LET n == Len(BatchOperations)
        results == response.payload.results
        \* the operations for which a client could be had
        dispatched == {i \in 1..Len(results) :
                         results[i].error # MissingServiceKey}
    IN /\ Len(results) = n
       /\ \A i \in 1..n : results[i].operation = PassedOn(i)
       /\ Len(calls) = Cardinality(dispatched)
       /\ \A i \in CallIndices :
            \E j \in dispatched :
              /\ Cardinality({k \in dispatched : k <= j}) = i
              /\ VerbText[calls[i].fn] = KindOf(BatchOperations[j])
              /\ results[j].success <=> AnswerKind(i) = "ok"
       /\ response.payload.success = "true"
            <=> \A i \in 1..n : results[i].success
       /\ ~response.isError <=> response.payload.success = "true"
       /\ Range(ErrorIndices) = {i - 1 : i \in {j \in 1..n : ~results[j].success}}
       /\ Len(ErrorIndices) = Cardinality(Range(ErrorIndices))

\* a sequential batch of two operations whose first call failed and whose
\* second call succeeded
C16_Witness ==
  /\ SequentialRun
  /\ Len(BatchOperations) = 2
  /\ Len(calls) = 2
  /\ AnswerKind(1) = "throw"
  /\ AnswerKind(2) = "ok"
  /\ ~response.payload.results[1].success
  /\ response.payload.results[2].success
  /\ response.payload.success = "false"

---------------------------------------------------------------------------
(* C17 *)

ValidatedBatch ==
  /\ Handling("batchOperations")
  /\ BatchOperations # <<>>
  /\ InvalidIndices = {}

TransactionRequested == request.arguments.useTransaction \in {"absent", "true"}

\* the calls of a batch are of one kind, and fit the mode
CallsFitMode ==
  IF TransactionRequested
  THEN \A i \in CallIndices :
         /\ calls[i].fn = "execute_transaction"
         /\ calls[i].ops = [j \in 1..Len(BatchOperations) |-> PassedOn(j)]
  ELSE /\ \A i \in CallIndices : calls[i].kind = "from"
       /\ Len(calls) <= Len(BatchOperations)

\* the handle the transaction's tier asks for cannot be built
TransactionCredentialMissing ==
  SomeOperationPrivileged /\ ~Truthy(env["SUPABASE_SERVICE_KEY"])

\* C17, as amended: a validated batch with useTransaction absent or true
\* issues no structured call and at most one execute_transaction call, which
\* carries all operations in input order: exactly one, unless the credential
\* of the batch's tier is not configured, and then none, the response being
\* an error. With useTransaction false it issues no execute_transaction call
\* and at most one structured call per operation.
C17_ModeSelection ==
  ValidatedBatch =>
    /\ CallsFitMode
    /\ TransactionRequested =>
         IF TransactionCredentialMissing
         THEN NoBackendCall /\ response.isError
         ELSE Len(calls) = 1

\* C17, as stated: a validated batch with useTransaction absent or true
\* issues exactly one execute_transaction call.
C17_ExactlyOneTransactionCall ==
  ValidatedBatch =>
    /\ CallsFitMode
    /\ TransactionRequested => Len(calls) = 1

\* a validated batch of two operations, useTransaction absent, went out as
\* one execute_transaction call
C17_Witness ==
  /\ ValidatedBatch
  /\ request.arguments.useTransaction = "absent"
  /\ Len(BatchOperations) = 2
  /\ Len(calls) = 1
  /\ calls[1].fn = "execute_transaction"
  /\ Len(calls[1].ops) = 2

---------------------------------------------------------------------------
(* C18 *)

\* what operation j of the batch is to do to the database
IntendedEffect(j) ==
  LET op == BatchOperations[j] IN
  CASE KindOf(op) = T_insert ->
         Effect("insert", op.table.s, op.values.keys, {}, PassedOn(j).returning)
    [] KindOf(op) = T_update ->
         Effect("update", op.table.s, op.values.keys, op.filter.keys,
                PassedOn(j).returning)
    [] KindOf(op) = T_delete ->
         Effect("delete", op.table.s, {}, op.filter.keys, PassedOn(j).returning)

\* C18: a transactional batch run against the documented execute_transaction
\* procedure leaves in the database the effects of all its operations or of
\* none, and a response with success true means all were applied.
C18_TransactionAtomic ==
  TransactionSent /\ calls[1].answer.procedure = "execute_transaction"
    => LET applied == calls[1].answer.applied
           all == [j \in 1..Len(BatchOperations) |-> IntendedEffect(j)]
       IN /\ applied = <<>> \/ applied = all
          /\ response.payload.success = "true" => applied = all

---------------------------------------------------------------------------
(* C20 *)

\* the table names the backend lists
ListedNames == UNION {Range(l) : l \in Listings}

\* C20: the listing returns one resource per table the backend lists, in the
\* backend's order, with the URI supabase://<project>/tables/<table>, and
\* an empty list, without raising, when the backend listing fails; reading
\* the URI of a listed table requests the schema of exactly that table.
C20_ListingAndReadAgree ==
  /\ Handling("resources/list") =>
       /\ raised = NotRaised
       /\ response.payload.results =
            IF calls # <<>> /\ AnswerKind(1) = "ok"
            THEN [i \in 1..Len(request.arguments.listing) |->
                    Uri("supabase", "project.supabase.co", "tables",
                        request.arguments.listing[i])]
            ELSE <<>>
  /\ Handling("resources/read")
       /\ request.arguments.uri.table \in ListedNames
       /\ request.arguments.uri.seg = "tables"
       => /\ calls # <<>>
          /\ \A i \in CallIndices :
               calls[i].table = request.arguments.uri.table

---------------------------------------------------------------------------
(* C27 *)

\* C27: in every batchOperations response the protocol flag and the payload
\* agree: isError is true exactly when the payload's success is not true.
C27_FlagAgreesWithPayload ==
  Handling("batchOperations") =>
    (response.isError <=> response.payload.success # "true")

\* a sequential batch of two calls whose first failed was answered with
\* isError true and success false
C27_Witness ==
  /\ ValidatedBatch
  /\ ~TransactionRequested
  /\ Len(calls) = 2
  /\ response.payload.errors # <<>>
  /\ response.payload.results[2].success
  /\ response.isError
  /\ response.payload.success = "false"

---------------------------------------------------------------------------
(* C21 *)

Executors ==
  {"executeSqlQuery", "executeWriteSqlQuery", "executeInsert",
   "executeUpdate", "executeDelete", "executeTransaction"}

\* C21: each executor completes by returning a result value and never
\* raises to its caller, including when the credentials of the tier it
\* selects are missing.
C21_ExecutorsNeverRaise ==
  result # NoResult /\ result.name \in Executors => ~result.out.threw

---------------------------------------------------------------------------
(* C28 *)

ConfigurationErrors ==
  {"Missing Supabase configuration",
   "Missing Supabase service key configuration"}

\* the step calls the getter of the Standard tier, or of the Privileged tier
ObtainsStandard == result'.name \in {"import", "getSupabaseClient"}
ObtainsPrivileged == result'.name = "getSupabaseServiceClient"

HandlesUnchanged ==
  UNCHANGED <<supabaseClient, supabaseServiceClient, created>>

\* C28: obtaining the client of a tier whose credentials are missing fails
\* with a configuration error, leaves both cached handles as they were and
\* issues no backend call; obtaining or failing to obtain one tier's handle
\* never creates, replaces or clears the handle of the other tier.
C28_MissingCredentialsLeaveHandles ==
  [][/\ ObtainsStandard /\ ~Truthy(env["SUPABASE_API_KEY"]) => result'.out.threw
     /\ ObtainsPrivileged /\ ~Truthy(env["SUPABASE_SERVICE_KEY"])
          => result'.out.threw
     /\ result'.out.threw =>
          /\ result'.out.message \in ConfigurationErrors
          /\ result'.out.calls = <<>>
          /\ HandlesUnchanged
     /\ ObtainsStandard => UNCHANGED supabaseServiceClient
     /\ ObtainsPrivileged => UNCHANGED supabaseClient
     /\ supabaseClient' # supabaseClient =>
          supabaseClient = Null /\ UNCHANGED supabaseServiceClient
     /\ supabaseServiceClient' # supabaseServiceClient =>
          supabaseServiceClient = Null /\ UNCHANGED supabaseClient
    ]_vars

\* the Privileged getter was called with no service key configured and
\* threw, and the Standard handle is still cached
C28_Witness ==
  /\ result # NoResult
  /\ result.name = "getSupabaseServiceClient"
  /\ result.out.threw
  /\ ~Truthy(env["SUPABASE_SERVICE_KEY"])
  /\ supabaseClient = createClient("SUPABASE_API_KEY")
  /\ supabaseServiceClient = Null

---------------------------------------------------------------------------
(* C25 *)

\* a text that is a list of column names, or *
ColumnList(text) ==
  text = <<"*">> \/ \A i \in DOMAIN text : text[i] \in WordChars \cup {",", " "}

StructuredTools ==
  {"insertRecord", "updateRecord", "deleteRecord", "batchOperations"}

\* C25: on insertRecord, updateRecord, deleteRecord and batchOperations no
\* statement text of the caller reaches the backend: a structured call
\* carries no SQL text, and the text that execute_transaction writes
\* unquoted into a statement it executes, the returning argument, is a list
\* of columns, so that it cannot change the structure of the statement.
C25_NoCallerTextInStatements ==
  ToolCall /\ request.name \in StructuredTools =>
    \A i \in CallIndices :
      /\ calls[i].sql = <<>>
      /\ calls[i].answer.procedure = "execute_transaction" =>
           \A k \in DOMAIN calls[i].answer.applied :
             ColumnList(calls[i].answer.applied[k].returning)

---------------------------------------------------------------------------
(* C29 *)

CredentialNames == {"password", "DB_PASSWORD"}

\* the paths into a JSON value, to the depth of the contexts
RECURSIVE PathsOf(_, _)
PathsOf(v, d) ==
  IF v.t # "object" \/ d = 0 THEN {<<>>}
  ELSE {<<>>} \cup
       UNION {{<<k>> \o p : p \in PathsOf(v.fields[k], d - 1)} :
                k \in DOMAIN v.fields}

RECURSIVE ValueAt(_, _)
ValueAt(v, path) ==
  IF path = <<>> THEN v ELSE ValueAt(v.fields[Head(path)], Tail(path))

\* a credential of the context: a field named password or DB_PASSWORD, at
\* any depth, whose value is a text that is not empty
CredentialPaths(data) ==
  {p \in PathsOf(data, ContextDepth + 1) :
     /\ p # <<>>
     /\ p[Len(p)] \in CredentialNames
     /\ ValueAt(data, p).t = "string"
     /\ ValueAt(data, p).s # <<>>}

\* the text shows the credential at that path
Shows(text, data, p) ==
  /\ p \in PathsOf(text.body, ContextDepth + 1)
  /\ ValueAt(text.body, p) = ValueAt(data, p)

\* C29: the emitted log text never contains the value of a field of the
\* context named password or DB_PASSWORD, at any nesting depth, and
\* formatting a message leaves the caller's context unchanged.
C29_CredentialsNeverLogged ==
  logged.level # "none" =>
    /\ logged.after = logged.data
    /\ logged.emitted =>
         \A p \in CredentialPaths(logged.data) :
           ~Shows(logged.text, logged.data, p)

---------------------------------------------------------------------------
(* Client handles under interleaved requests                               *)

\* the backend calls the handler of request r has issued
CallsOf(r) == Range(inflight[r].calls)

\* for each tier createClient was called at most once, with that tier's key,
\* and every call issued was made with a handle that is cached
HandlesBuiltOnce ==
  /\ created.std <= 1
  /\ created.svc <= 1
  /\ supabaseClient \in {Null, createClient("SUPABASE_API_KEY")}
  /\ supabaseServiceClient \in {Null, createClient("SUPABASE_SERVICE_KEY")}
  /\ (supabaseClient = Null) <=> (created.std = 0)
  /\ (supabaseServiceClient = Null) <=> (created.svc = 0)
  /\ \A r \in Slots : \A call \in CallsOf(r) :
       /\ call.client # Null.key
       /\ call.client \in {supabaseClient.key, supabaseServiceClient.key}

\* a handle that was built stays the cached one
HandlesKept ==
  /\ supabaseClient # Null => supabaseClient' = supabaseClient
  /\ supabaseServiceClient # Null =>
       supabaseServiceClient' = supabaseServiceClient

\* C24: with requests interleaved at their backend calls, each tier's handle
\* is constructed at most once in the life of the process, with the key of
\* its tier, and every later request of the tier obtains that same handle
C24_HandlesBuiltOnce == []HandlesBuiltOnce /\ [][HandlesKept]_vars

\* two requests are in flight, each with a pending call made with the
\* privileged handle, which was built once
C24_Witness ==
  /\ created.svc = 1
  /\ \A r \in Slots :
       /\ inflight[r].pending # {}
       /\ \E call \in CallsOf(r) : call.client = "SUPABASE_SERVICE_KEY"

---------------------------------------------------------------------------
(* The calls of a sequential batch                                         *)

\* the handler of request r runs, or has run, the sequential loop
Sequential(r) ==
  /\ inflight[r].state \in {"SequentialRunning", "Completed"}
  /\ inflight[r].arguments.useTransaction = "false"

\* event k of request r is the issue of a call
IsIssue(r, k) == inflight[r].events[k].kind = "issue"

\* between events k1 and k2 of request r the call of operation op completed
CompletedBetween(r, op, k1, k2) ==
  \E k \in (k1 + 1)..(k2 - 1) : inflight[r].events[k] = Event("complete", op)

\* the calls of request r were issued in the order of its operations, each
\* after the call issued before it had completed
InOrderWithoutOverlap(r) ==
  /\ Cardinality(inflight[r].pending) <= 1
  /\ \A k1, k2 \in DOMAIN inflight[r].events :
       (k1 < k2 /\ IsIssue(r, k1) /\ IsIssue(r, k2)) =>
         /\ inflight[r].events[k1].op < inflight[r].events[k2].op
         /\ CompletedBetween(r, inflight[r].events[k1].op, k1, k2)

\* C22: in a non-transactional batch the backend calls are issued in input
\* order and never overlap: the call of a later operation is issued only
\* after the call of every earlier one has completed, also when other
\* requests are in flight
C22_SequentialCallsInOrder ==
  \A r \in Slots : Sequential(r) => InOrderWithoutOverlap(r)

\* a sequential batch has issued its second call after its first completed
\* with an error, while a call of another request is pending
C22_Witness ==
  \E r, o \in Slots :
    /\ r # o
    /\ Sequential(r)
    /\ inflight[r].events =
         <<Event("issue", 1), Event("complete", 1), Event("issue", 2)>>
    /\ inflight[r].outs[1] = "error"
    /\ inflight[o].pending # {}

---------------------------------------------------------------------------
(* Requests in flight do not share results                                 *)

\* operation k of request r failed: its executor threw before it issued a
\* call, or the backend answered its call with an error or not at all
OwnFailure(r, k) ==
  ~issues(inflight[r].operations[k]) \/ inflight[r].outs[k] # "ok"

\* the results and errors in a are those of the first m operations of
\* request r, in the order of its input
OwnEntries(r, a, m) ==
  /\ Len(a.results) = m
  /\ \A k \in 1..m :
       /\ a.results[k].operation = inflight[r].operations[k]
       /\ a.results[k].success <=> ~OwnFailure(r, k)
  /\ Len(a.errors) = Cardinality({k \in 1..m : OwnFailure(r, k)})
  /\ \A i \in DOMAIN a.errors :
       /\ a.errors[i].index + 1 \in 1..m
       /\ OwnFailure(r, a.errors[i].index + 1)
  /\ \A i, j \in DOMAIN a.errors :
       i < j => a.errors[i].index < a.errors[j].index

\* C26: when requests interleave at their backend calls, the results and
\* errors of a batch, while its loop runs and in its response, hold one entry
\* for each of its own operations handled so far, made from the backend's
\* reply to that operation, in the order of the batch's own input
C26_OwnResultsOnly ==
  \A r \in Slots :
    /\ inflight[r].state = "SequentialRunning" =>
         OwnEntries(r, locals[r], inflight[r].lo - 1)
    /\ inflight[r].state = "Completed" =>
         OwnEntries(r, inflight[r].response.payload,
                    Len(inflight[r].operations))
    /\ inflight[r].state = "Committed" =>
         Len(inflight[r].response.payload.results) =
           Len(inflight[r].operations)

\* two sequential batches are suspended at the call of their second
\* operation, the first operation of one having failed and that of the
\* other having succeeded
C26_Witness ==
  \E r, o \in Slots :
    /\ inflight[r].state = "SequentialRunning"
    /\ inflight[o].state = "SequentialRunning"
    /\ inflight[r].lo = 2 /\ inflight[r].pending = {2}
    /\ inflight[o].lo = 2 /\ inflight[o].pending = {2}
    /\ locals[r].errors # <<>>
    /\ locals[o].errors = <<>>

---------------------------------------------------------------------------
(* The life cycle of a batch                                               *)

RunningStates == {"TransactionPending", "SequentialRunning"}

\* a handler that has returned has made one response and awaits no call; one
\* that has not has made none
OneResponse(r) ==
  IF inflight[r].state \in TerminalStates
  THEN inflight[r].responses = 1 /\ inflight[r].pending = {}
  ELSE inflight[r].responses = 0

\* a terminal state is entered from the state before it in the life cycle,
\* and a handler in a terminal state does nothing more: it issues no call
\* and changes neither its state nor its response until the response is sent
NoReentry(r) ==
  /\ inflight[r].state \in TerminalStates =>
       inflight'[r] \in {inflight[r], Free}
  /\ (inflight[r].state # "Rejected" /\ inflight'[r].state = "Rejected") =>
       inflight[r].state = "Free"
  /\ (inflight[r].state \notin {"Committed", "Failed"}
        /\ inflight'[r].state \in {"Committed", "Failed"}) =>
       inflight[r].state = "TransactionPending"
  /\ (inflight[r].state # "Completed" /\ inflight'[r].state = "Completed") =>
       inflight[r].state = "SequentialRunning"

\* C23: every batchOperations call whose backend calls all complete reaches
\* one of the terminal states Rejected, Committed, Failed, Completed, makes
\* exactly one response, and issues no backend call after it reached its
\* terminal state
C23_BatchLifeCycle ==
  /\ \A r \in Slots :
       (inflight[r].state \in RunningStates) ~>
         (inflight[r].state \in TerminalStates)
  /\ [](\A r \in Slots : OneResponse(r))
  /\ [][\A r \in Slots : NoReentry(r)]_vars

\* a transactional batch has failed after its call completed and a
\* sequential one has completed after its calls did, each with one response
C23_Witness ==
  \E r, o \in Slots :
    /\ inflight[r].state = "Failed"
    /\ inflight[r].events = <<Event("issue", 0), Event("complete", 0)>>
    /\ inflight[r].responses = 1
    /\ inflight[o].state = "Completed"
    /\ Len(inflight[o].events) = 4
    /\ inflight[o].responses = 1

=============================================================================
